---- MODULE Spec2Model ----
(***************************************************************************)
(* Duplicate-detection and quality-ranking core of removebadphotos:        *)
(*   LibraryAnalyzer  (library_analyzer.py)  metadata clustering + scores  *)
(*   PhotoScanner     (photo_scanner.py)     grouping, scoring, refinement *)
(*   LazyPhotoLoader  (lazy_photo_loader.py) caches and on-demand loading  *)
(*                                                                         *)
(* Units.  Timestamps are whole seconds.  File sizes are bytes.  GPS       *)
(* coordinates are multiples of 0.0001 degree.  Quality scores are kept in *)
(* quarter points (QScale = 4), because the organization bonus             *)
(* (org_score / 100) * 25 is a multiple of 0.25.  Python's None is the     *)
(* string "None"; an optional number is <<>> (None) or <<x>>.             *)
(***************************************************************************)
EXTENDS Integers, Sequences, FiniteSets, TLC

VARIABLES
    photos,           \* LibraryAnalyzer: the caller's list of PhotoMetadata (sorted in place by identify_clusters)
    window,           \* time_window_seconds of the last identify_clusters call
    clusters,         \* list of PhotoCluster returned by the last identify_clusters call
    score,            \* value returned by the last direct scoring call
    raw,              \* PhotoScanner: attributes of the library record handed to extract_photo_metadata
    loaded,           \* PhotoScanner: the list of PhotoData handed to the grouping step
    groups,           \* PhotoScanner: list of PhotoGroup returned by the last step
    threshold,        \* similarity_threshold of the last filter_groups_by_visual_similarity call
    phase,            \* which call completed last
    library,          \* the Photos library: list of library records, position = uuid
    resolvable,       \* uuids for which db.get_photo currently hands back a photo
    cluster_cache,    \* LazyPhotoLoader._cluster_cache: PhotoCluster per cluster_id, in insertion order
    metadata_cache,   \* LazyPhotoLoader._metadata_cache: PhotoMetadata per uuid, in insertion order
    cache_timestamp,  \* LazyPhotoLoader._cache_timestamp: <<>> (None) or <<t>>
    now,              \* wall clock read by datetime.now(): number of scans completed so far
    scanned,          \* a get_library_metadata_fast call completed since construction / the last clear_cache
    prev_load,        \* <<>> or the last successful load_cluster_photos since the last scan / clear
    result,           \* what the last LazyPhotoLoader call handed to its caller
    pc,               \* per request handler: the statement of the LazyPhotoLoader call it is about to run
    frame,            \* per request handler: the local variables photo_metadata and clusters of its call
    scan,             \* LibraryAnalyzer.quick_scan_library: outcome of the last call
    blur              \* BlurDetector: the files handed in, the results and statistics handed back

analyzerVars == <<photos, window, clusters, score, raw, loaded, groups, threshold, phase>>

loaderVars == <<library, resolvable, cluster_cache, metadata_cache, cache_timestamp,
                now, scanned, prev_load, result>>

handlerVars == <<pc, frame>>

vars == <<photos, window, clusters, score, raw, loaded, groups, threshold, phase,
          library, resolvable, cluster_cache, metadata_cache, cache_timestamp,
          now, scanned, prev_load, result, pc, frame, scan, blur>>

None == "None"

----------------------------------------------------------------------------
(* Bounds and input domains                                                *)

MaxPhotos == 4

MaxLoaded == 3

MB == 1024 * 1024

Times == {0, 10, 40, 101}

Windows == {10, 100}

\* camera model, file size, location and file name of a catalog entry;
\* a file name is the list of its dot-separated parts
Profiles ==
    { [camera_model |-> None,     file_size |-> MB,      has_location |-> FALSE, latitude |-> <<>>,  longitude |-> <<>>,
       filename |-> <<"IMG_1", "HEIC">>],
      [camera_model |-> "iPhone", file_size |-> 6 * MB,  has_location |-> TRUE,  latitude |-> <<0>>, longitude |-> <<0>>,
       filename |-> <<"IMG_2", "jpeg">>],
      [camera_model |-> "iPhone", file_size |-> 60 * MB, has_location |-> TRUE,  latitude |-> <<5>>, longitude |-> <<300>>,
       filename |-> <<"IMG_3", "JPG">>] }

----------------------------------------------------------------------------
(* Generic helpers                                                         *)

RECURSIVE SumSeq(_)
SumSeq(s) == IF s = <<>> THEN 0 ELSE Head(s) + SumSeq(Tail(s))

RECURSIVE MaxSeq(_, _)
\* max(iterable, default=d)
MaxSeq(s, d) ==
    IF s = <<>> THEN d
    ELSE LET m == MaxSeq(Tail(s), Head(s)) IN IF Head(s) >= m THEN Head(s) ELSE m

RECURSIVE MinSeq(_, _)
MinSeq(s, d) ==
    IF s = <<>> THEN d
    ELSE LET m == MinSeq(Tail(s), Head(s)) IN IF Head(s) <= m THEN Head(s) ELSE m

Range(s) == {s[i] : i \in DOMAIN s}

Uuids(s) == {s[i].uuid : i \in DOMAIN s}

RECURSIVE InsertByTimestamp(_, _)
\* position of p in an already sorted list: after every element whose key is <= p's (stable)
InsertByTimestamp(sorted, p) ==
    IF sorted = <<>> THEN <<p>>
    ELSE IF Head(sorted).timestamp <= p.timestamp
         THEN <<Head(sorted)>> \o InsertByTimestamp(Tail(sorted), p)
         ELSE <<p>> \o sorted

RECURSIVE SortByTimestamp(_)
\* list.sort(key=lambda p: p.timestamp): ascending and stable
SortByTimestamp(s) ==
    IF s = <<>> THEN <<>>
    ELSE InsertByTimestamp(SortByTimestamp(SubSeq(s, 1, Len(s) - 1)), s[Len(s)])

----------------------------------------------------------------------------
(* LibraryAnalyzer                                                         *)

threshold_degrees == 10

are_locations_similar(locations) ==
    IF Len(locations) < 2 THEN TRUE
    ELSE LET valid_locations == SelectSeq(locations, LAMBDA l : l[1] # <<>> /\ l[2] # <<>>)
         IN  IF Len(valid_locations) < 2 THEN TRUE
             ELSE LET lat_values == [i \in DOMAIN valid_locations |-> valid_locations[i][1][1]]
                      lng_values == [i \in DOMAIN valid_locations |-> valid_locations[i][2][1]]
                      lat_range == MaxSeq(lat_values, 0) - MinSeq(lat_values, 0)
                      lng_range == MaxSeq(lng_values, 0) - MinSeq(lng_values, 0)
                  IN  lat_range <= threshold_degrees /\ lng_range <= threshold_degrees

LocationsOf(ps) ==
    LET photos_with_location == SelectSeq(ps, LAMBDA p : p.has_location)
    IN  [i \in DOMAIN photos_with_location |->
            <<photos_with_location[i].latitude, photos_with_location[i].longitude>>]

get_location_summary(ps) ==
    LET locations == LocationsOf(ps)
    IN  IF Len(locations) = 0 THEN None
        ELSE IF Len(locations) = 1 THEN "Single location"
        ELSE IF are_locations_similar(locations) THEN "Same location"
        ELSE "Multiple locations"

\* points added for time clustering (library_analyzer.py:251-265)
TimePoints(ps) ==
    LET time_spans == [i \in 1..(Len(ps) - 1) |-> ps[i + 1].timestamp - ps[i].timestamp]
        n == Len(time_spans)
        total == SumSeq(time_spans)
        max_time_span == MaxSeq(time_spans, 0)
    IN  IF total <= 5 * n THEN 40
        ELSE IF total <= 10 * n THEN 30
        ELSE IF max_time_span <= 60 THEN 20
        ELSE 0

\* points added for file size impact (library_analyzer.py:267-281)
SizePoints(ps) ==
    LET total == SumSeq([i \in DOMAIN ps |-> ps[i].file_size])
        n == Len(ps)
        avgPts == IF total > 10 * MB * n THEN 30
                  ELSE IF total > 5 * MB * n THEN 20
                  ELSE IF total > 2 * MB * n THEN 10
                  ELSE 0
        totPts == IF total > 100 * MB THEN 15
                  ELSE IF total > 50 * MB THEN 10
                  ELSE 0
    IN  avgPts + totPts

\* mutant: the points need a known camera model
CameraPoints_KnownModel(ps) ==
    LET camera_models == {ps[i].camera_model : i \in {j \in DOMAIN ps : ps[j].camera_model # None}}
    IN  IF Cardinality(camera_models) = 1 THEN 20 ELSE 0

\* points added for camera consistency (library_analyzer.py:283-286)
CameraPoints(ps) ==
    LET camera_models == {ps[i].camera_model : i \in {j \in DOMAIN ps : ps[j].camera_model # None}}
    IN  IF Cardinality(camera_models) <= 1 THEN 20 ELSE 0

\* points added for location consistency (library_analyzer.py:288-294)
LocationPoints(ps) ==
    LET locations == LocationsOf(ps)
    IN  IF Len(locations) >= 2 /\ are_locations_similar(locations) THEN 10 ELSE 0

Min2(a, b) == IF a <= b THEN a ELSE b

\* mutant: the sum is returned without the cap
calculate_duplicate_probability_score_NoCap(ps) ==
    IF Len(ps) < 2 THEN 0
    ELSE TimePoints(ps) + SizePoints(ps) + CameraPoints(ps) + LocationPoints(ps)

calculate_duplicate_probability_score(ps) ==
    IF Len(ps) < 2 THEN 0
    ELSE Min2(TimePoints(ps) + SizePoints(ps) + CameraPoints(ps) + LocationPoints(ps), 100)

\* mutant: strict comparisons in the ladder
PriorityLevel_Strict(s) ==
    IF s > 90 THEN "P1"
    ELSE IF s > 80 THEN "P2"
    ELSE IF s > 70 THEN "P3"
    ELSE IF s > 60 THEN "P4"
    ELSE IF s > 50 THEN "P5"
    ELSE IF s > 40 THEN "P6"
    ELSE IF s > 30 THEN "P7"
    ELSE IF s > 20 THEN "P8"
    ELSE IF s > 10 THEN "P9"
    ELSE "P10"

\* the P1..P10 ladder of identify_clusters
PriorityLevel(s) ==
    IF s >= 90 THEN "P1"
    ELSE IF s >= 80 THEN "P2"
    ELSE IF s >= 70 THEN "P3"
    ELSE IF s >= 60 THEN "P4"
    ELSE IF s >= 50 THEN "P5"
    ELSE IF s >= 40 THEN "P6"
    ELSE IF s >= 30 THEN "P7"
    ELSE IF s >= 20 THEN "P8"
    ELSE IF s >= 10 THEN "P9"
    ELSE "P10"

\* mutant: the camera model is not compared
CameraMatch_Any(base_photo, candidate_photo) == TRUE

\* camera model match of the inner loop (None matches None)
CameraMatch(base_photo, candidate_photo) ==
    \/ base_photo.camera_model = candidate_photo.camera_model
    \/ (base_photo.camera_model = None /\ candidate_photo.camera_model = None)

RECURSIVE WindowCandidates_Sliding(_, _, _, _, _)
\* mutant: the window restarts at every absorbed photo
WindowCandidates_Sliding(ps, j, base_photo, time_window_end, used_photos) ==
    IF j > Len(ps) THEN <<>>
    ELSE IF ps[j].uuid \in used_photos
         THEN WindowCandidates_Sliding(ps, j + 1, base_photo, time_window_end, used_photos)
    ELSE IF ps[j].timestamp > time_window_end THEN <<>>
    ELSE IF CameraMatch(base_photo, ps[j])
         THEN <<ps[j]>> \o WindowCandidates_Sliding(ps, j + 1, ps[j],
                    ps[j].timestamp + (time_window_end - base_photo.timestamp), used_photos)
    ELSE WindowCandidates_Sliding(ps, j + 1, base_photo, time_window_end, used_photos)

RECURSIVE WindowCandidates_StopAtMismatch(_, _, _, _, _)
\* mutant: the inner loop ends at the first candidate of another camera model
WindowCandidates_StopAtMismatch(ps, j, base_photo, time_window_end, used_photos) ==
    IF j > Len(ps) THEN <<>>
    ELSE IF ps[j].uuid \in used_photos
         THEN WindowCandidates_StopAtMismatch(ps, j + 1, base_photo, time_window_end, used_photos)
    ELSE IF ps[j].timestamp > time_window_end THEN <<>>
    ELSE IF CameraMatch(base_photo, ps[j])
         THEN <<ps[j]>> \o WindowCandidates_StopAtMismatch(ps, j + 1, base_photo,
                                                           time_window_end, used_photos)
    ELSE <<>>

RECURSIVE WindowCandidates(_, _, _, _, _)
\* inner loop over photos[i+1:]: skip used photos, stop at the first one past the window
WindowCandidates(ps, j, base_photo, time_window_end, used_photos) ==
    IF j > Len(ps) THEN <<>>
    ELSE IF ps[j].uuid \in used_photos
         THEN WindowCandidates(ps, j + 1, base_photo, time_window_end, used_photos)
    ELSE IF ps[j].timestamp > time_window_end THEN <<>>
    ELSE IF CameraMatch(base_photo, ps[j])
         THEN <<ps[j]>> \o WindowCandidates(ps, j + 1, base_photo, time_window_end, used_photos)
    ELSE WindowCandidates(ps, j + 1, base_photo, time_window_end, used_photos)

\* mutant: the savings assume the smallest member survives
PhotoCluster_KeepSmallest(cluster_counter, base_photo, cluster_photos) ==
    LET sizes == [k \in DOMAIN cluster_photos |-> cluster_photos[k].file_size]
        total_size == SumSeq(sizes)
        s == calculate_duplicate_probability_score(cluster_photos)
    IN  [cluster_id                  |-> cluster_counter,
         photo_count                 |-> Len(cluster_photos),
         time_span_start             |-> cluster_photos[1].timestamp,
         time_span_end               |-> cluster_photos[Len(cluster_photos)].timestamp,
         total_size_bytes            |-> total_size,
         potential_savings_bytes     |-> total_size - MinSeq(sizes, 0),
         duplicate_probability_score |-> s,
         priority_level              |-> PriorityLevel(s),
         camera_model                |-> base_photo.camera_model,
         location_summary            |-> get_location_summary(cluster_photos),
         photo_uuids                 |-> [k \in DOMAIN cluster_photos |-> cluster_photos[k].uuid]]

PhotoCluster(cluster_counter, base_photo, cluster_photos) ==
    LET sizes == [k \in DOMAIN cluster_photos |-> cluster_photos[k].file_size]
        total_size == SumSeq(sizes)
        s == calculate_duplicate_probability_score(cluster_photos)
    IN  [cluster_id                  |-> cluster_counter,
         photo_count                 |-> Len(cluster_photos),
         time_span_start             |-> cluster_photos[1].timestamp,
         time_span_end               |-> cluster_photos[Len(cluster_photos)].timestamp,
         total_size_bytes            |-> total_size,
         potential_savings_bytes     |-> total_size - MaxSeq(sizes, 0),
         duplicate_probability_score |-> s,
         priority_level              |-> PriorityLevel(s),
         camera_model                |-> base_photo.camera_model,
         location_summary            |-> get_location_summary(cluster_photos),
         photo_uuids                 |-> [k \in DOMAIN cluster_photos |-> cluster_photos[k].uuid]]

RECURSIVE ClusterLoop_SeedUsed(_, _, _, _, _)
\* mutant: a photo that is already in a cluster still becomes a base photo
ClusterLoop_SeedUsed(ps, i, time_window_seconds, used_photos, acc) ==
    IF i > Len(ps) THEN acc
    ELSE LET base_photo == ps[i]
             cluster_photos == <<base_photo>> \o
                 WindowCandidates(ps, i + 1, base_photo,
                                  base_photo.timestamp + time_window_seconds, used_photos)
         IN  IF Len(cluster_photos) > 1
             THEN ClusterLoop_SeedUsed(ps, i + 1, time_window_seconds,
                              used_photos \cup Uuids(cluster_photos),
                              Append(acc, PhotoCluster(Len(acc) + 1, base_photo, cluster_photos)))
             ELSE ClusterLoop_SeedUsed(ps, i + 1, time_window_seconds, used_photos, acc)

RECURSIVE ClusterLoop(_, _, _, _, _)
\* outer loop of identify_clusters over the sorted list
ClusterLoop(ps, i, time_window_seconds, used_photos, acc) ==
    IF i > Len(ps) THEN acc
    ELSE IF ps[i].uuid \in used_photos
         THEN ClusterLoop(ps, i + 1, time_window_seconds, used_photos, acc)
    ELSE LET base_photo == ps[i]
             cluster_photos == <<base_photo>> \o
                 WindowCandidates(ps, i + 1, base_photo,
                                  base_photo.timestamp + time_window_seconds, used_photos)
         IN  IF Len(cluster_photos) > 1
             THEN ClusterLoop(ps, i + 1, time_window_seconds,
                              used_photos \cup Uuids(cluster_photos),
                              Append(acc, PhotoCluster(Len(acc) + 1, base_photo, cluster_photos)))
             ELSE ClusterLoop(ps, i + 1, time_window_seconds, used_photos, acc)

identify_clusters(ps, time_window_seconds) ==
    ClusterLoop(SortByTimestamp(ps), 1, time_window_seconds, {}, <<>>)

----------------------------------------------------------------------------
(* PhotoScanner: scoring                                                   *)

QScale == 4

\* calculate_organization_score; the lists count by their length, path is <<>> (None)
\* or <<d>> with d the number of '/' in it
calculate_organization_score(albums, folder_names, keywords, path) ==
    LET albumPts  == IF Len(albums) > 0
                     THEN 30 + (IF Len(albums) > 1 THEN 10 ELSE 0) ELSE 0
        folderPts == IF Len(folder_names) > 0
                     THEN 15 + (IF Len(folder_names) >= 2 THEN 10 ELSE 0)
                             + (IF Len(folder_names) >= 3 THEN 5 ELSE 0)
                     ELSE 0
        keywordPts == IF Len(keywords) > 0
                      THEN 10 + (IF Len(keywords) >= 3 THEN 10 ELSE 0) ELSE 0
        pathPts == IF path # <<>> /\ path[1] >= 1
                   THEN (IF path[1] >= 4 THEN 10 ELSE IF path[1] >= 3 THEN 5 ELSE 0)
                   ELSE 0
    IN  Min2(albumPts + folderPts + keywordPts + pathPts, 100)

\* mutant: the file size ladder is read upside down
analyze_photo_quality_SmallFilesFirst(photo_data) ==
    LET pixel_count == photo_data.width * photo_data.height
        resPts == IF pixel_count > 8000000 THEN 30
                  ELSE IF pixel_count > 4000000 THEN 22
                  ELSE IF pixel_count > 2000000 THEN 15
                  ELSE 8
        sizePts == IF photo_data.file_size > 5000000 THEN 5
                   ELSE IF photo_data.file_size > 2000000 THEN 12
                   ELSE IF photo_data.file_size > 1000000 THEN 18
                   ELSE 25
        fmtPts == IF photo_data.format \in {"HEIC", "RAW", "DNG"} THEN 20
                  ELSE IF photo_data.format \in {"JPEG", "JPG"} THEN 15
                  ELSE 8
        org_score == photo_data.organization_score
        orgQ == IF org_score > 0 THEN org_score ELSE 0
    IN  Min2(QScale * (resPts + sizePts + fmtPts) + orgQ, QScale * 100)

\* metadata-based quality, in quarter points
analyze_photo_quality(photo_data) ==
    LET pixel_count == photo_data.width * photo_data.height
        resPts == IF pixel_count > 8000000 THEN 30
                  ELSE IF pixel_count > 4000000 THEN 22
                  ELSE IF pixel_count > 2000000 THEN 15
                  ELSE 8
        sizePts == IF photo_data.file_size > 5000000 THEN 25
                   ELSE IF photo_data.file_size > 2000000 THEN 18
                   ELSE IF photo_data.file_size > 1000000 THEN 12
                   ELSE 5
        fmtPts == IF photo_data.format \in {"HEIC", "RAW", "DNG"} THEN 20
                  ELSE IF photo_data.format \in {"JPEG", "JPG"} THEN 15
                  ELSE 8
        org_score == photo_data.organization_score
        \* (org_score / 100.0) * 25 points = org_score quarter points
        orgQ == IF org_score > 0 THEN org_score ELSE 0
    IN  Min2(QScale * (resPts + sizePts + fmtPts) + orgQ, QScale * 100)

Max2(a, b) == IF a >= b THEN a ELSE b

\* pixel-based quality of the file at photo.path, in quarter points: 0.0 when the
\* file cannot be decoded (both readers fail), else the clamped weighted sum
analyze_image_quality(photo) ==
    IF ~photo.file_decodable THEN 0
    ELSE Min2(Max2(photo.file_quality, 0), QScale * 100)

\* perceptual hash: <<>> is None, <<bits>> a 64-bit hash given as its set of 1 bits
compute_perceptual_hash(photo_data) ==
    IF ~photo_data.path_ok THEN <<>>
    ELSE IF ~photo_data.file_decodable THEN <<>>
    ELSE <<photo_data.file_phash>>

max_distance == 64

SimScale == 16

\* similarity percentage in sixteenths of a percent: (1 - d/64) * 100 = (64 - d) * 25/16
calculate_visual_similarity(hash1, hash2) ==
    IF hash1 = <<>> \/ hash2 = <<>> THEN 0
    ELSE LET h1 == hash1[1]
             h2 == hash2[1]
             hamming_distance == Cardinality((h1 \ h2) \cup (h2 \ h1))
             similarity == ((max_distance - hamming_distance) * 100 * SimScale) \div max_distance
         IN  Max2(0, Min2(100 * SimScale, similarity))

\* max(seq, key=lambda p: p.timestamp): the first element carrying the largest key
MaxByTimestamp(s) ==
    LET best == CHOOSE i \in DOMAIN s :
                    /\ \A j \in DOMAIN s : s[j].timestamp <= s[i].timestamp
                    /\ \A j \in 1..(i - 1) : s[j].timestamp < s[i].timestamp
    IN  s[best]

\* max(seq, key=lambda p: p.quality_score): the first element carrying the largest key
MaxByQuality(s) ==
    LET best == CHOOSE i \in DOMAIN s :
                    /\ \A j \in DOMAIN s : s[j].quality_score <= s[i].quality_score
                    /\ \A j \in 1..(i - 1) : s[j].quality_score < s[i].quality_score
    IN  s[best]

----------------------------------------------------------------------------
(* PhotoScanner: grouping by time and camera                               *)

NoTimestamp == -1

PhotoGroup(group_id, group_photos, recommended_photo, start, end, camera_model) ==
    LET sizes == [k \in DOMAIN group_photos |-> group_photos[k].file_size]
        total_size == SumSeq(sizes)
    IN  [group_id                |-> group_id,
         photos                  |-> group_photos,
         recommended_photo_uuid  |-> recommended_photo.uuid,
         time_window_start       |-> start,
         time_window_end         |-> end,
         camera_model            |-> camera_model,
         total_size_bytes        |-> total_size,
         potential_savings_bytes |-> total_size - MaxSeq(sizes, 0)]

RECURSIVE GroupLoop(_, _, _, _, _)
\* outer loop of group_photos_by_time_and_camera over the sorted valid photos
GroupLoop(ps, i, time_window_seconds, used_photos, acc) ==
    IF i > Len(ps) THEN acc
    ELSE IF ps[i].uuid \in used_photos
         THEN GroupLoop(ps, i + 1, time_window_seconds, used_photos, acc)
    ELSE LET base_photo == ps[i]
             group_photos == <<base_photo>> \o
                 WindowCandidates(ps, i + 1, base_photo,
                                  base_photo.timestamp + time_window_seconds, used_photos)
         IN  IF Len(group_photos) > 1
             THEN GroupLoop(ps, i + 1, time_window_seconds,
                            used_photos \cup Uuids(group_photos),
                            Append(acc,
                                PhotoGroup(<<Len(acc) + 1>>, group_photos,
                                           MaxByTimestamp(group_photos),
                                           base_photo.timestamp,
                                           group_photos[Len(group_photos)].timestamp,
                                           IF base_photo.camera_model = None
                                           THEN "Unknown" ELSE base_photo.camera_model)))
             ELSE GroupLoop(ps, i + 1, time_window_seconds, used_photos, acc)

group_photos_by_time_and_camera(ps, time_window_seconds) ==
    LET valid_photos == SelectSeq(ps, LAMBDA p : p.timestamp # NoTimestamp)
    IN  GroupLoop(SortByTimestamp(valid_photos), 1, time_window_seconds, {}, <<>>)

----------------------------------------------------------------------------
(* PhotoScanner: hashes, quality scores and the recommendation             *)

\* body of "if not photo.analyzed" in enhanced_grouping_with_similarity
AnalyzePhoto(photo) ==
    IF photo.analyzed THEN photo
    ELSE [photo EXCEPT
            !.perceptual_hash = compute_perceptual_hash(photo),
            !.hash_computations = @ + 1,
            !.quality_score = IF photo.path_ok THEN analyze_image_quality(photo)
                              ELSE analyze_photo_quality(photo),
            !.analyzed = TRUE]

EnhanceGroup(group) ==
    LET analyzed_photos == [k \in DOMAIN group.photos |-> AnalyzePhoto(group.photos[k])]
        photos_with_quality == SelectSeq(analyzed_photos, LAMBDA p : p.quality_score > 0)
    IN  [group EXCEPT
            !.photos = analyzed_photos,
            !.recommended_photo_uuid =
                IF photos_with_quality # <<>>
                THEN MaxByQuality(photos_with_quality).uuid
                ELSE @]

enhanced_grouping_with_similarity(gs) == [g \in DOMAIN gs |-> EnhanceGroup(gs[g])]

----------------------------------------------------------------------------
(* PhotoScanner: refinement by visual similarity                           *)

\* lines 550-560: hash the photos that have none yet and a readable path
HashIfMissing(photo) ==
    IF photo.perceptual_hash = <<>> /\ photo.path_ok
    THEN [photo EXCEPT !.perceptual_hash = compute_perceptual_hash(photo),
                       !.hash_computations = @ + 1]
    ELSE photo

RECURSIVE SimilarTo_Chain(_, _, _, _, _)
\* the inner loop comparing each candidate with the photo absorbed last, not with the base
SimilarTo_Chain(ps, j, base_photo, similarity_threshold, used_photos) ==
    IF j > Len(ps) THEN <<>>
    ELSE IF ps[j].uuid \in used_photos
         THEN SimilarTo_Chain(ps, j + 1, base_photo, similarity_threshold, used_photos)
    ELSE IF calculate_visual_similarity(base_photo.perceptual_hash, ps[j].perceptual_hash)
                >= similarity_threshold * SimScale
         THEN <<ps[j]>> \o SimilarTo_Chain(ps, j + 1, ps[j], similarity_threshold, used_photos)
    ELSE SimilarTo_Chain(ps, j + 1, base_photo, similarity_threshold, used_photos)

RECURSIVE SimilarTo_Strict(_, _, _, _, _)
\* the inner loop with a strict comparison against the threshold
SimilarTo_Strict(ps, j, base_photo, similarity_threshold, used_photos) ==
    IF j > Len(ps) THEN <<>>
    ELSE IF ps[j].uuid \in used_photos
         THEN SimilarTo_Strict(ps, j + 1, base_photo, similarity_threshold, used_photos)
    ELSE IF calculate_visual_similarity(base_photo.perceptual_hash, ps[j].perceptual_hash)
                > similarity_threshold * SimScale
         THEN <<ps[j]>> \o SimilarTo_Strict(ps, j + 1, base_photo, similarity_threshold, used_photos)
    ELSE SimilarTo_Strict(ps, j + 1, base_photo, similarity_threshold, used_photos)

RECURSIVE SimilarTo(_, _, _, _, _)
\* inner loop: later unused photos at least similarity_threshold similar to the base photo
SimilarTo(ps, j, base_photo, similarity_threshold, used_photos) ==
    IF j > Len(ps) THEN <<>>
    ELSE IF ps[j].uuid \in used_photos
         THEN SimilarTo(ps, j + 1, base_photo, similarity_threshold, used_photos)
    ELSE IF calculate_visual_similarity(base_photo.perceptual_hash, ps[j].perceptual_hash)
                >= similarity_threshold * SimScale
         THEN <<ps[j]>> \o SimilarTo(ps, j + 1, base_photo, similarity_threshold, used_photos)
    ELSE SimilarTo(ps, j + 1, base_photo, similarity_threshold, used_photos)

RECURSIVE SubgroupLoop(_, _, _, _, _)
\* outer loop over photos_with_hashes; a base photo is used even when nothing joins it
SubgroupLoop(ps, i, similarity_threshold, used_photos, acc) ==
    IF i > Len(ps) THEN acc
    ELSE IF ps[i].uuid \in used_photos
         THEN SubgroupLoop(ps, i + 1, similarity_threshold, used_photos, acc)
    ELSE LET similar_photos == <<ps[i]>> \o
                 SimilarTo(ps, i + 1, ps[i], similarity_threshold, used_photos \cup {ps[i].uuid})
         IN  SubgroupLoop(ps, i + 1, similarity_threshold,
                          used_photos \cup Uuids(similar_photos),
                          IF Len(similar_photos) > 1 THEN Append(acc, similar_photos) ELSE acc)

\* lines 614-620: best quality score, else newest
RecommendedPhoto(subgroup_photos) ==
    LET photos_with_quality == SelectSeq(subgroup_photos, LAMBDA p : p.quality_score > 0)
    IN  IF photos_with_quality # <<>>
        THEN MaxByQuality(photos_with_quality)
        ELSE MaxByTimestamp(subgroup_photos)

RECURSIVE SubgroupsToGroups_NoSizeCheck(_, _, _)
\* mutant: every subgroup becomes a PhotoGroup
SubgroupsToGroups_NoSizeCheck(group, subgroups, i) ==
    IF i > Len(subgroups) THEN <<>>
    ELSE LET subgroup_photos == subgroups[i]
             stamps == [k \in DOMAIN subgroup_photos |-> subgroup_photos[k].timestamp]
         IN  <<PhotoGroup(Append(group.group_id, i), subgroup_photos,
                          RecommendedPhoto(subgroup_photos),
                          MinSeq(stamps, 0), MaxSeq(stamps, 0), group.camera_model)>>
             \o SubgroupsToGroups_NoSizeCheck(group, subgroups, i + 1)

RECURSIVE SubgroupsToGroups_ParentBest(_, _, _)
\* mutant: the recommendation is taken over the parent group's photos
SubgroupsToGroups_ParentBest(group, subgroups, i) ==
    IF i > Len(subgroups) THEN <<>>
    ELSE LET subgroup_photos == subgroups[i]
             stamps == [k \in DOMAIN subgroup_photos |-> subgroup_photos[k].timestamp]
         IN  (IF Len(subgroup_photos) > 1
              THEN <<PhotoGroup(Append(group.group_id, i), subgroup_photos,
                                RecommendedPhoto(group.photos),
                                MinSeq(stamps, 0), MaxSeq(stamps, 0), group.camera_model)>>
              ELSE <<>>)
             \o SubgroupsToGroups_ParentBest(group, subgroups, i + 1)

RECURSIVE SubgroupsToGroups(_, _, _)
\* lines 607-635: one PhotoGroup per subgroup with more than one photo
SubgroupsToGroups(group, subgroups, i) ==
    IF i > Len(subgroups) THEN <<>>
    ELSE LET subgroup_photos == subgroups[i]
             stamps == [k \in DOMAIN subgroup_photos |-> subgroup_photos[k].timestamp]
         IN  (IF Len(subgroup_photos) > 1
              THEN <<PhotoGroup(Append(group.group_id, i), subgroup_photos,
                                RecommendedPhoto(subgroup_photos),
                                MinSeq(stamps, 0), MaxSeq(stamps, 0), group.camera_model)>>
              ELSE <<>>)
             \o SubgroupsToGroups(group, subgroups, i + 1)

\* what one input group contributes to refined_groups
RefineGroup(group, similarity_threshold) ==
    IF Len(group.photos) <= 1 THEN <<group>>
    ELSE LET hashed == [k \in DOMAIN group.photos |-> HashIfMissing(group.photos[k])]
             hashed_group == [group EXCEPT !.photos = hashed]
             photos_with_hashes == SelectSeq(hashed, LAMBDA p : p.perceptual_hash # <<>>)
         IN  IF Len(photos_with_hashes) <= 1 THEN <<hashed_group>>
             ELSE LET similar == SubgroupLoop(photos_with_hashes, 1, similarity_threshold, {}, <<>>)
                      photos_without_hashes == SelectSeq(hashed, LAMBDA p : p.perceptual_hash = <<>>)
                      subgroups == IF photos_without_hashes # <<>>
                                   THEN Append(similar, photos_without_hashes) ELSE similar
                  IN  SubgroupsToGroups(hashed_group, subgroups, 1)

RECURSIVE filter_groups_by_visual_similarity(_, _)
filter_groups_by_visual_similarity(gs, similarity_threshold) ==
    IF gs = <<>> THEN <<>>
    ELSE RefineGroup(Head(gs), similarity_threshold)
         \o filter_groups_by_visual_similarity(Tail(gs), similarity_threshold)

\* lazy_photo_loader.py:251-253
AnalysisPipeline(loaded_photos) ==
    filter_groups_by_visual_similarity(
        enhanced_grouping_with_similarity(
            group_photos_by_time_and_camera(loaded_photos, 10)), 70)

----------------------------------------------------------------------------
(* Direct calls into LibraryAnalyzer                                       *)

PhotoMetadata(uuid, timestamp, profile) ==
    [uuid |-> uuid, filename |-> profile.filename, timestamp |-> timestamp,
     camera_model |-> profile.camera_model, file_size |-> profile.file_size,
     has_location |-> profile.has_location,
     latitude |-> profile.latitude, longitude |-> profile.longitude]

\* the value a LazyPhotoLoader call hands back: kind is "ok" or the exception raised;
\* filters is <<>> or the <<filters>> argument of a load_filtered_clusters call
NoResult ==
    [op |-> "none", kind |-> "ok", cluster_id |-> 0, clusters |-> <<>>, photos |-> <<>>,
     photo_count |-> 0, total_size_bytes |-> 0, groups |-> <<>>, stats |-> <<>>,
     resolve_calls |-> 0, repeat |-> FALSE, prev_photos |-> <<>>, filters |-> <<>>]

\* the request handlers of the hosting web application
Handlers == {1, 2}

\* no handler is inside a LazyPhotoLoader call
HandlersIdle ==
    /\ pc = [h \in Handlers |-> "idle"]
    /\ frame = [h \in Handlers |-> [photo_metadata |-> <<>>, clusters |-> <<>>]]

\* the value of a quick_scan_library call that has not been made
NoScan ==
    [outcome |-> "none", attempted |-> <<>>, skipped |-> {}, photo_metadata_list |-> <<>>,
     total_photos |-> 0, total_size_bytes |-> 0, unreadable |-> {}]

\* no scan of the library has been made
ScanIdle == scan = NoScan

\* a BlurDetector that has been handed nothing
NoBlur == [step |-> "input", files |-> <<>>, results |-> <<>>, stats |-> <<>>, raised |-> None]

BlurIdle == blur = NoBlur

\* LazyPhotoLoader.__init__ over an empty library
LoaderIdle ==
    /\ library = <<>>
    /\ resolvable = {}
    /\ cluster_cache = <<>>
    /\ metadata_cache = <<>>
    /\ cache_timestamp = <<>>
    /\ now = 0
    /\ scanned = FALSE
    /\ prev_load = <<>>
    /\ result = NoResult

InitCluster ==
    /\ \E n \in 0..MaxPhotos : \E f \in [1..n -> Times \X Profiles] :
            photos = [i \in 1..n |-> PhotoMetadata(i, f[i][1], f[i][2])]
    /\ window = 0
    /\ threshold = 0
    /\ clusters = <<>>
    /\ score = 0
    /\ raw = <<>>
    /\ loaded = <<>>
    /\ groups = <<>>
    /\ phase = "input"
    /\ LoaderIdle
    /\ HandlersIdle
    /\ ScanIdle
    /\ BlurIdle

IdentifyClusters ==
    /\ phase = "input"
    /\ \E w \in Windows :
        /\ window' = w
        /\ clusters' = identify_clusters(photos, w)
    /\ photos' = SortByTimestamp(photos)
    /\ phase' = "clustered"
    /\ UNCHANGED <<score, raw, loaded, groups, threshold>>
    /\ UNCHANGED loaderVars
    /\ UNCHANGED handlerVars
    /\ UNCHANGED scan
    /\ UNCHANGED blur

CalculateDuplicateProbabilityScore ==
    /\ phase = "input"
    /\ score' = calculate_duplicate_probability_score(photos)
    /\ phase' = "scored"
    /\ UNCHANGED <<photos, window, clusters, raw, loaded, groups, threshold>>
    /\ UNCHANGED loaderVars
    /\ UNCHANGED handlerVars
    /\ UNCHANGED scan
    /\ UNCHANGED blur

NextCluster == IdentifyClusters \/ CalculateDuplicateProbabilityScore

SpecCluster == InitCluster /\ [][NextCluster]_vars

----------------------------------------------------------------------------
(* Direct calls into PhotoScanner: metadata extraction and scoring         *)

Dimensions == { <<0, 0>>, <<1000, 2000>>, <<2000, 2000>>, <<4000, 2000>>, <<4032, 3024>> }

ByteSizes == {1000000, 2000000, 5000000, 5000001}

Formats == {"HEIC", "JPG", "unknown"}

ListLengths == 0..3

PathDepths == { <<>>, <<0>>, <<3>>, <<4>> }

Names(n) == [k \in 1..n |-> "x"]

\* a PhotoData as extract_photo_metadata builds it: no hash, score 0.0, not analyzed;
\* hash_computations counts the compute_perceptual_hash calls made on it
PhotoData(uuid, timestamp, camera_model, file_size, dims, format, organization_score, file) ==
    [uuid |-> uuid, timestamp |-> timestamp, camera_model |-> camera_model,
     file_size |-> file_size, width |-> dims[1], height |-> dims[2], format |-> format,
     organization_score |-> organization_score,
     path_ok |-> file.path_ok, file_decodable |-> file.file_decodable,
     file_phash |-> file.file_phash, file_quality |-> file.file_quality,
     perceptual_hash |-> <<>>, quality_score |-> 0, analyzed |-> FALSE,
     hash_computations |-> 0]

NoFile == [path_ok |-> FALSE, file_decodable |-> FALSE, file_phash |-> {}, file_quality |-> 0]

InitScore ==
    /\ \E a \in ListLengths, f \in ListLengths, k \in ListLengths, d \in PathDepths,
          dims \in Dimensions, sz \in ByteSizes, fmt \in Formats :
            raw = [albums |-> Names(a), folder_names |-> Names(f), keywords |-> Names(k),
                   path |-> d, dims |-> dims, file_size |-> sz, format |-> fmt]
    /\ photos = <<>>
    /\ window = 0
    /\ threshold = 0
    /\ clusters = <<>>
    /\ score = 0
    /\ loaded = <<>>
    /\ groups = <<>>
    /\ phase = "raw"
    /\ LoaderIdle
    /\ HandlersIdle
    /\ ScanIdle
    /\ BlurIdle

\* extract_photo_metadata: organization score, then the PhotoData
ExtractPhotoMetadata ==
    /\ phase = "raw"
    /\ LET org_score == calculate_organization_score(raw.albums, raw.folder_names,
                                                     raw.keywords, raw.path)
       IN  loaded' = <<PhotoData(1, 0, None, raw.file_size, raw.dims, raw.format,
                                 org_score, NoFile)>>
    /\ phase' = "extracted"
    /\ UNCHANGED <<photos, window, clusters, score, raw, groups, threshold>>
    /\ UNCHANGED loaderVars
    /\ UNCHANGED handlerVars
    /\ UNCHANGED scan
    /\ UNCHANGED blur

AnalyzePhotoQuality ==
    /\ phase = "extracted"
    /\ score' = analyze_photo_quality(loaded[1])
    /\ phase' = "quality"
    /\ UNCHANGED <<photos, window, clusters, raw, loaded, groups, threshold>>
    /\ UNCHANGED loaderVars
    /\ UNCHANGED handlerVars
    /\ UNCHANGED scan
    /\ UNCHANGED blur

NextScore == ExtractPhotoMetadata \/ AnalyzePhotoQuality

\* analyze_photo_quality on a second entry that has other pixel dimensions and
\* another byte size and is otherwise the first; both scores are kept on the entries
AnalyzeResized ==
    /\ phase = "quality"
    /\ \E dims \in Dimensions, sz \in ByteSizes :
        LET other == [loaded[1] EXCEPT !.uuid = 2, !.width = dims[1], !.height = dims[2],
                                       !.file_size = sz]
        IN  /\ loaded' = << [loaded[1] EXCEPT !.quality_score = score],
                            [other EXCEPT !.quality_score = analyze_photo_quality(other)] >>
            /\ score' = analyze_photo_quality(other)
    /\ phase' = "compared"
    /\ UNCHANGED <<photos, window, clusters, raw, groups, threshold>>
    /\ UNCHANGED loaderVars
    /\ UNCHANGED handlerVars
    /\ UNCHANGED scan
    /\ UNCHANGED blur

NextResized == ExtractPhotoMetadata \/ AnalyzePhotoQuality \/ AnalyzeResized

SpecResized == InitScore /\ [][NextResized]_vars

----------------------------------------------------------------------------
(* Direct calls into PhotoScanner: grouping, scoring, refinement           *)

LoadTimes == {0, 5, 40}

Thresholds == {70, 90, 100}

H0 == {}
H1 == 1..10
H2 == 1..20

\* camera model, metadata and image file of a catalog entry
Kinds ==
    { [camera_model |-> "iPhone", file_size |-> 1000000, dims |-> <<1000, 1000>>, format |-> "JPG",
       organization_score |-> 0, file |-> NoFile],
      [camera_model |-> "iPhone", file_size |-> 5000001, dims |-> <<4032, 3024>>, format |-> "HEIC",
       organization_score |-> 45, file |-> NoFile],
      [camera_model |-> "iPhone", file_size |-> 1000000, dims |-> <<1000, 1000>>, format |-> "JPG",
       organization_score |-> 0,
       file |-> [path_ok |-> TRUE, file_decodable |-> FALSE, file_phash |-> {}, file_quality |-> 0]],
      [camera_model |-> "iPhone", file_size |-> 5000001, dims |-> <<4032, 3024>>, format |-> "HEIC",
       organization_score |-> 0,
       file |-> [path_ok |-> TRUE, file_decodable |-> TRUE, file_phash |-> H0, file_quality |-> 320]],
      [camera_model |-> "iPhone", file_size |-> 5000001, dims |-> <<4032, 3024>>, format |-> "HEIC",
       organization_score |-> 0,
       file |-> [path_ok |-> TRUE, file_decodable |-> TRUE, file_phash |-> H1, file_quality |-> 320]],
      [camera_model |-> "iPhone", file_size |-> 1000000, dims |-> <<4032, 3024>>, format |-> "JPG",
       organization_score |-> 0,
       file |-> [path_ok |-> TRUE, file_decodable |-> TRUE, file_phash |-> H2, file_quality |-> 160]],
      [camera_model |-> None, file_size |-> 1000000, dims |-> <<1000, 1000>>, format |-> "JPG",
       organization_score |-> 0,
       file |-> [path_ok |-> TRUE, file_decodable |-> TRUE, file_phash |-> H0, file_quality |-> 160]] }

LoadedPhoto(uuid, timestamp, kind) ==
    PhotoData(uuid, timestamp, kind.camera_model, kind.file_size, kind.dims, kind.format,
              kind.organization_score, kind.file)

\* every catalog entry at every time, and one entry whose timestamp is None
LoadOptions ==
    (LoadTimes \X Kinds) \cup ({NoTimestamp} \X {k \in Kinds : k.organization_score = 45})

InitPipeline ==
    /\ \E n \in 0..MaxLoaded : \E f \in [1..n -> LoadOptions] :
            loaded = [i \in 1..n |-> LoadedPhoto(i, f[i][1], f[i][2])]
    /\ photos = <<>>
    /\ window = 0
    /\ threshold = 0
    /\ clusters = <<>>
    /\ score = 0
    /\ raw = <<>>
    /\ groups = <<>>
    /\ phase = "loaded"
    /\ LoaderIdle
    /\ HandlersIdle
    /\ ScanIdle
    /\ BlurIdle

GroupPhotosByTimeAndCamera ==
    /\ phase = "loaded"
    /\ groups' = group_photos_by_time_and_camera(loaded, 10)
    /\ phase' = "grouped"
    /\ UNCHANGED <<photos, window, clusters, score, raw, loaded, threshold>>
    /\ UNCHANGED loaderVars
    /\ UNCHANGED handlerVars
    /\ UNCHANGED scan
    /\ UNCHANGED blur

EnhancedGroupingWithSimilarity ==
    /\ phase = "grouped"
    /\ groups' = enhanced_grouping_with_similarity(groups)
    /\ phase' = "enhanced"
    /\ UNCHANGED <<photos, window, clusters, score, raw, loaded, threshold>>
    /\ UNCHANGED loaderVars
    /\ UNCHANGED handlerVars
    /\ UNCHANGED scan
    /\ UNCHANGED blur

FilterGroupsByVisualSimilarity ==
    /\ phase \in {"grouped", "enhanced"}
    /\ \E t \in Thresholds :
        /\ threshold' = t
        /\ groups' = filter_groups_by_visual_similarity(groups, t)
    /\ phase' = "refined"
    /\ UNCHANGED <<photos, window, clusters, score, raw, loaded>>
    /\ UNCHANGED loaderVars
    /\ UNCHANGED handlerVars
    /\ UNCHANGED scan
    /\ UNCHANGED blur

\* the three calls of analyze_cluster_photos on an already loaded list
AnalyzeLoadedPhotos ==
    /\ phase = "loaded"
    /\ groups' = AnalysisPipeline(loaded)
    /\ threshold' = 70
    /\ phase' = "analyzed"
    /\ UNCHANGED <<photos, window, clusters, score, raw, loaded>>
    /\ UNCHANGED loaderVars
    /\ UNCHANGED handlerVars
    /\ UNCHANGED scan
    /\ UNCHANGED blur

NextPipeline ==
    \/ GroupPhotosByTimeAndCamera
    \/ EnhancedGroupingWithSimilarity
    \/ FilterGroupsByVisualSimilarity
    \/ AnalyzeLoadedPhotos

SpecPipeline == InitPipeline /\ [][NextPipeline]_vars

MaxBurst == 5

H3 == 1..64

\* one burst of a single camera: local files that differ only in what they show;
\* the last one cannot be decoded and so gets no hash
BurstKinds ==
    { [camera_model |-> "iPhone", file_size |-> 1000000, dims |-> <<1000, 1000>>, format |-> "JPG",
       organization_score |-> 0,
       file |-> [path_ok |-> TRUE, file_decodable |-> TRUE, file_phash |-> h, file_quality |-> 160]]
      : h \in {H0, H1, H2, H3} }
    \cup
    { [camera_model |-> "iPhone", file_size |-> 1000000, dims |-> <<1000, 1000>>, format |-> "JPG",
       organization_score |-> 0,
       file |-> [path_ok |-> TRUE, file_decodable |-> FALSE, file_phash |-> {}, file_quality |-> 0]] }

\* up to MaxBurst photos taken one second apart, loaded for one cluster
InitBurst ==
    /\ \E n \in 0..MaxBurst : \E f \in [1..n -> BurstKinds] :
            loaded = [i \in 1..n |-> LoadedPhoto(i, i, f[i])]
    /\ photos = <<>>
    /\ window = 0
    /\ threshold = 0
    /\ clusters = <<>>
    /\ score = 0
    /\ raw = <<>>
    /\ groups = <<>>
    /\ phase = "loaded"
    /\ LoaderIdle
    /\ HandlersIdle
    /\ ScanIdle
    /\ BlurIdle

SpecBurst == InitBurst /\ [][NextPipeline]_vars

\* Scenario A: capture times in seconds and sizes in bytes of the three entries
ScenarioTimes == <<0, 3, 6>>

ScenarioSizes == <<5 * MB, 5 * MB, 6 * MB>>

\* where an entry was taken: nowhere known, or one of two places far apart
Locations ==
    { [has_location |-> FALSE, latitude |-> <<>>,  longitude |-> <<>>],
      [has_location |-> TRUE,  latitude |-> <<0>>, longitude |-> <<0>>],
      [has_location |-> TRUE,  latitude |-> <<5>>, longitude |-> <<300>>] }

Permutations3 == { p \in [1..3 -> 1..3] : \A i, j \in 1..3 : p[i] = p[j] => i = j }

\* the three entries, in any list order, of one device (or of none known), each taken anywhere
InitScenarioA ==
    /\ \E tp \in Permutations3, sp \in Permutations3, cam \in {None, "iPhone"},
          loc \in [1..3 -> Locations] :
            photos = [i \in 1..3 |->
                        PhotoMetadata(i, ScenarioTimes[tp[i]],
                            [camera_model |-> cam, file_size |-> ScenarioSizes[sp[i]],
                             has_location |-> loc[i].has_location,
                             latitude |-> loc[i].latitude, longitude |-> loc[i].longitude,
                             filename |-> <<"IMG", "jpg">>])]
    /\ window = 0
    /\ threshold = 0
    /\ clusters = <<>>
    /\ score = 0
    /\ raw = <<>>
    /\ loaded = <<>>
    /\ groups = <<>>
    /\ phase = "input"
    /\ LoaderIdle
    /\ HandlersIdle
    /\ ScanIdle
    /\ BlurIdle

SpecScenarioA == InitScenarioA /\ [][NextCluster]_vars

\* the largest cluster whose score is compared factor by factor
MaxMembers == 3

\* the four weighted factors of calculate_duplicate_probability_score
Factors == {"time", "size", "camera", "location"}

\* seconds between consecutive members
Gaps == {0, 8, 50, 70}

FactorSizes == {MB, 6 * MB, 60 * MB}

Cameras == {None, "iPhone", "Canon"}

\* the values one factor can take over a cluster of n members: one per member,
\* for the time factor one per pair of consecutive members
FactorValues(k, n) ==
    CASE k = "time"     -> [1..(n - 1) -> Gaps]
      [] k = "size"     -> [1..n -> FactorSizes]
      [] k = "camera"   -> [1..n -> Cameras]
      [] k = "location" -> [1..n -> Locations]

\* the cluster ps with the values v in factor k and everything else as it was
WithFactor(ps, k, v) ==
    CASE k = "time"     -> [i \in DOMAIN ps |->
                               [ps[i] EXCEPT !.timestamp = SumSeq(SubSeq(v, 1, i - 1))]]
      [] k = "size"     -> [i \in DOMAIN ps |-> [ps[i] EXCEPT !.file_size = v[i]]]
      [] k = "camera"   -> [i \in DOMAIN ps |-> [ps[i] EXCEPT !.camera_model = v[i]]]
      [] k = "location" -> [i \in DOMAIN ps |->
                               [ps[i] EXCEPT !.has_location = v[i].has_location,
                                             !.latitude = v[i].latitude,
                                             !.longitude = v[i].longitude]]

\* the values of factor k in the cluster ps
FactorOf(ps, k) ==
    CASE k = "time"     -> [i \in 1..(Len(ps) - 1) |-> ps[i + 1].timestamp - ps[i].timestamp]
      [] k = "size"     -> [i \in DOMAIN ps |-> ps[i].file_size]
      [] k = "camera"   -> [i \in DOMAIN ps |-> ps[i].camera_model]
      [] k = "location" -> [i \in DOMAIN ps |->
                               [has_location |-> ps[i].has_location,
                                latitude |-> ps[i].latitude, longitude |-> ps[i].longitude]]

\* every factor but k has one value over the whole cluster
OthersUniform(ps, k) ==
    \A j \in Factors \ {k} : Cardinality(Range(FactorOf(ps, j))) <= 1

\* a cluster in time order that varies in at most one factor
InitFactors ==
    /\ \E n \in 2..MaxMembers, gap \in {0, 50}, size \in {MB, 60 * MB},
          cam \in {None, "iPhone"}, loc \in Locations, k \in Factors :
         \E v \in FactorValues(k, n) :
            photos = WithFactor(
                        [i \in 1..n |->
                            PhotoMetadata(i, gap * (i - 1),
                                [camera_model |-> cam, file_size |-> size,
                                 has_location |-> loc.has_location,
                                 latitude |-> loc.latitude, longitude |-> loc.longitude,
                                 filename |-> <<"IMG", "jpg">>])],
                        k, v)
    /\ window = 0
    /\ threshold = 0
    /\ clusters = <<>>
    /\ score = 0
    /\ raw = <<>>
    /\ loaded = <<>>
    /\ groups = <<>>
    /\ phase = "input"
    /\ LoaderIdle
    /\ HandlersIdle
    /\ ScanIdle
    /\ BlurIdle

\* a further call of calculate_duplicate_probability_score, on the cluster with
\* other values in one factor
ScoreVariant ==
    /\ phase = "scored"
    /\ \E k \in Factors : \E v \in FactorValues(k, Len(photos)) :
        LET variant == WithFactor(photos, k, v)
        IN  /\ OthersUniform(variant, k)
            /\ photos' = variant
            /\ score' = calculate_duplicate_probability_score(variant)
    /\ phase' = "rescored"
    /\ UNCHANGED <<window, clusters, raw, loaded, groups, threshold>>
    /\ UNCHANGED loaderVars
    /\ UNCHANGED handlerVars
    /\ UNCHANGED scan
    /\ UNCHANGED blur

NextFactors == CalculateDuplicateProbabilityScore \/ ScoreVariant

SpecFactors == InitFactors /\ [][NextFactors]_vars

SpecScore == (InitCluster \/ InitScore) /\ [][NextCluster \/ NextScore]_vars

SpecGroups == (InitCluster \/ InitPipeline) /\ [][NextCluster \/ NextPipeline]_vars

----------------------------------------------------------------------------
(* LazyPhotoLoader: the Photos library it reads                            *)

MaxLibrary == 3

MaxScans == 2

\* a record of the Photos library, with the image file behind it
LibraryRecord(timestamp, camera_model, file_size, filename, dims, file) ==
    [timestamp |-> timestamp, camera_model |-> camera_model, file_size |-> file_size,
     filename |-> filename, dims |-> dims, albums |-> <<>>, keywords |-> <<>>,
     folder_names |-> IF file.path_ok THEN Names(3) ELSE <<>>,
     path |-> IF file.path_ok THEN <<3>> ELSE <<>>, file |-> file]

\* a burst of three shots on one camera, then shots without camera data
LibraryCatalog ==
    << LibraryRecord(0,  "iPhone", 6 * MB, <<"IMG_1", "jpeg">>, <<4032, 3024>>,
           [path_ok |-> TRUE, file_decodable |-> TRUE, file_phash |-> H0, file_quality |-> 320]),
       LibraryRecord(5,  "iPhone", 6 * MB, <<"IMG_2", "JPG">>,  <<4032, 3024>>,
           [path_ok |-> TRUE, file_decodable |-> TRUE, file_phash |-> H1, file_quality |-> 160]),
       LibraryRecord(8,  "iPhone", 60 * MB, <<"IMG_3", "png">>, <<4032, 3024>>,
           [path_ok |-> TRUE, file_decodable |-> FALSE, file_phash |-> {}, file_quality |-> 0]),
       LibraryRecord(40, None,     MB,     <<"IMG_4", "HEIC">>, <<1000, 1000>>, NoFile),
       LibraryRecord(45, None,     MB,     <<"IMG_5">>,         <<1000, 1000>>, NoFile),
       LibraryRecord(50, None,     MB,     <<"IMG_6", "heic">>, <<1000, 1000>>, NoFile) >>

\* library_analyzer.py:112-127, the PhotoMetadata the scan builds for one record
ScanMetadata(uuid, photo) ==
    PhotoMetadata(uuid, photo.timestamp,
                  [camera_model |-> photo.camera_model, file_size |-> photo.file_size,
                   has_location |-> FALSE, latitude |-> <<>>, longitude |-> <<>>,
                   filename |-> photo.filename])

RECURSIVE SubLists(_)
\* every list obtained from s by dropping entries, order kept
SubLists(s) ==
    IF s = <<>> THEN { <<>> }
    ELSE LET rest == SubLists(Tail(s))
         IN  rest \cup { <<Head(s)>> \o r : r \in rest }

\* what self.analyzer.quick_scan_library can hand to the loader: the metadata of the
\* library's records in enumeration order, without the records whose extraction raised
ScanResults(lib) == SubLists([i \in DOMAIN lib |-> ScanMetadata(i, lib[i])])

Upper(s) ==
    CASE s \in {"jpg", "JPG"}   -> "JPG"
      [] s \in {"jpeg", "JPEG"} -> "JPEG"
      [] s \in {"heic", "HEIC"} -> "HEIC"
      [] s \in {"png", "PNG"}   -> "PNG"
      [] OTHER                  -> s

\* photo.original_filename.split('.')[-1].upper() if '.' in it else "unknown"
FormatOf(filename) == IF Len(filename) > 1 THEN Upper(filename[Len(filename)]) ELSE "unknown"

\* PhotoScanner.extract_photo_metadata on the photo db.get_photo(uuid) returned
extract_photo_metadata(uuid, photo) ==
    PhotoData(uuid, photo.timestamp, photo.camera_model, photo.file_size, photo.dims,
              FormatOf(photo.filename),
              calculate_organization_score(photo.albums, photo.folder_names, photo.keywords,
                                           photo.path),
              photo.file)

\* timestamps count seconds from 2024-01-01 00:00:00
YearOf(t) == 2024 + (t \div (366 * 24 * 3600))

----------------------------------------------------------------------------
(* LazyPhotoLoader: operations on the caches                               *)

InCache(cache, cluster_id) == \E i \in DOMAIN cache : cache[i].cluster_id = cluster_id

ClusterById(cache, cluster_id) == cache[CHOOSE i \in DOMAIN cache : cache[i].cluster_id = cluster_id]

\* the absent keys of a filters dict are <<>>; a present key holds <<value>>,
\* and a size bound is itself optional: <<>> (None) or <<megabytes>>
NoFilters ==
    [year |-> <<>>, min_size_mb |-> <<>>, max_size_mb |-> <<>>, priority_levels |-> <<>>,
     camera_models |-> <<>>, file_types |-> <<>>]

FilterInputs ==
    { NoFilters,
      [NoFilters EXCEPT !.min_size_mb = << <<5>> >>],
      [NoFilters EXCEPT !.min_size_mb = << <<>> >>, !.max_size_mb = << <<5>> >>],
      [NoFilters EXCEPT !.priority_levels = <<{"P1", "P2", "P3"}>>],
      [NoFilters EXCEPT !.camera_models = <<{"iPhone"}>>],
      [NoFilters EXCEPT !.file_types = <<{"jpg"}>>],
      [NoFilters EXCEPT !.file_types = <<{"JPEG"}>>],
      [NoFilters EXCEPT !.year = <<2023>>, !.camera_models = <<{"iPhone"}>>,
                        !.file_types = <<{"heic"}>>] }

\* lines 98-104
YearFilter(cs, filters) ==
    IF filters.year # <<>> /\ filters.year[1] # 0
    THEN LET Keep(c) == YearOf(c.time_span_start) = filters.year[1]
                        \/ YearOf(c.time_span_end) = filters.year[1]
         IN  SelectSeq(cs, Keep)
    ELSE cs

\* lines 107-125; a missing or None max_size_mb is float('inf')
SizeFilter(cs, filters) ==
    IF filters.min_size_mb # <<>> \/ filters.max_size_mb # <<>>
    THEN LET min_size_mb == IF filters.min_size_mb = <<>> \/ filters.min_size_mb[1] = <<>>
                            THEN 0 ELSE filters.min_size_mb[1][1]
             unbounded   == filters.max_size_mb = <<>> \/ filters.max_size_mb[1] = <<>>
             Keep(c) == /\ min_size_mb * 1024 * 1024 <= c.total_size_bytes
                        /\ (unbounded
                            \/ c.total_size_bytes <= filters.max_size_mb[1][1] * 1024 * 1024)
         IN  SelectSeq(cs, Keep)
    ELSE cs

\* lines 128-134
PriorityFilter(cs, filters) ==
    IF filters.priority_levels # <<>> /\ filters.priority_levels[1] # {}
    THEN LET Keep(c) == c.priority_level \in filters.priority_levels[1]
         IN  SelectSeq(cs, Keep)
    ELSE cs

\* lines 137-143
CameraFilter(cs, filters) ==
    IF filters.camera_models # <<>> /\ filters.camera_models[1] # {}
    THEN LET Keep(c) == c.camera_model \in filters.camera_models[1]
         IN  SelectSeq(cs, Keep)
    ELSE cs

\* lines 160-166: the extension of a cached entry, JPEG normalised to JPG
NormalisedExt(filename) ==
    LET ext == Upper(filename[Len(filename)])
    IN  IF ext = "JPEG" THEN "JPG" ELSE ext

\* lines 146-173
FileTypeFilter(cs, metadata, filters) ==
    IF filters.file_types # <<>> /\ filters.file_types[1] # {}
    THEN LET file_type_set == {Upper(ext) : ext \in filters.file_types[1]}
             Keep(c) == \E k \in DOMAIN c.photo_uuids :
                            \E m \in DOMAIN metadata :
                                /\ metadata[m].uuid = c.photo_uuids[k]
                                /\ Len(metadata[m].filename) > 1
                                /\ NormalisedExt(metadata[m].filename) \in file_type_set
         IN  SelectSeq(cs, Keep)
    ELSE cs

\* load_filtered_clusters
load_filtered_clusters(cache, metadata, filters) ==
    IF cache = <<>>
    THEN [NoResult EXCEPT !.op = "filter", !.kind = "ValueError"]
    ELSE [NoResult EXCEPT !.op = "filter",
            !.clusters = FileTypeFilter(CameraFilter(PriorityFilter(SizeFilter(
                             YearFilter(cache, filters), filters), filters), filters),
                             metadata, filters)]

\* db.get_photo(uuid): <<>> when the library hands back nothing or raises
get_photo(lib, present, uuid) == IF uuid \in present THEN <<lib[uuid]>> ELSE <<>>

RECURSIVE LoadLoop(_, _, _, _)
\* lines 203-215: one get_photo call per member id, unresolved ids skipped
LoadLoop(lib, present, photo_uuids, k) ==
    IF k > Len(photo_uuids) THEN <<>>
    ELSE LET photo == get_photo(lib, present, photo_uuids[k])
         IN  (IF photo # <<>> THEN <<extract_photo_metadata(photo_uuids[k], photo[1])>> ELSE <<>>)
             \o LoadLoop(lib, present, photo_uuids, k + 1)

\* load_cluster_photos, the variant that raises when no member id resolved
load_cluster_photos_RaiseOnNone(cache, lib, present, cluster_id) ==
    IF ~InCache(cache, cluster_id)
    THEN [NoResult EXCEPT !.op = "load", !.kind = "ValueError", !.cluster_id = cluster_id]
    ELSE LET photo_uuids   == ClusterById(cache, cluster_id).photo_uuids
             loaded_photos == LoadLoop(lib, present, photo_uuids, 1)
         IN  [NoResult EXCEPT !.op = "load", !.cluster_id = cluster_id,
                !.kind = IF loaded_photos = <<>> THEN "ValueError" ELSE "ok",
                !.photos = loaded_photos,
                !.photo_count = Len(loaded_photos),
                !.total_size_bytes =
                    SumSeq([k \in DOMAIN loaded_photos |-> loaded_photos[k].file_size]),
                !.resolve_calls = Len(photo_uuids)]

\* load_cluster_photos, the variant that stops at the first member id that fails to resolve
load_cluster_photos_StopAtFailure(cache, lib, present, cluster_id) ==
    IF ~InCache(cache, cluster_id)
    THEN [NoResult EXCEPT !.op = "load", !.kind = "ValueError", !.cluster_id = cluster_id]
    ELSE LET photo_uuids   == ClusterById(cache, cluster_id).photo_uuids
             failures      == {k \in DOMAIN photo_uuids : photo_uuids[k] \notin present}
             tried         == IF failures = {} THEN Len(photo_uuids)
                              ELSE CHOOSE k \in failures : \A j \in failures : k <= j
             loaded_photos == LoadLoop(lib, present, SubSeq(photo_uuids, 1, tried), 1)
         IN  [NoResult EXCEPT !.op = "load", !.cluster_id = cluster_id,
                !.photos = loaded_photos,
                !.photo_count = Len(loaded_photos),
                !.total_size_bytes =
                    SumSeq([k \in DOMAIN loaded_photos |-> loaded_photos[k].file_size]),
                !.resolve_calls = tried]

\* load_cluster_photos: ValueError for an id that is not cached, else a ClusterLoadResult
\* holding the member ids that resolved, after one get_photo call per member id
load_cluster_photos(cache, lib, present, cluster_id) ==
    IF ~InCache(cache, cluster_id)
    THEN [NoResult EXCEPT !.op = "load", !.kind = "ValueError", !.cluster_id = cluster_id]
    ELSE LET photo_uuids   == ClusterById(cache, cluster_id).photo_uuids
             loaded_photos == LoadLoop(lib, present, photo_uuids, 1)
         IN  [NoResult EXCEPT !.op = "load", !.cluster_id = cluster_id,
                !.photos = loaded_photos,
                !.photo_count = Len(loaded_photos),
                !.total_size_bytes =
                    SumSeq([k \in DOMAIN loaded_photos |-> loaded_photos[k].file_size]),
                !.resolve_calls = Len(photo_uuids)]

\* analyze_cluster_photos: the load, then [] when nothing was loaded, else the three
\* PhotoScanner passes; the list of groups is the whole return value
analyze_cluster_photos(cache, lib, present, cluster_id) ==
    LET load_result == load_cluster_photos(cache, lib, present, cluster_id)
    IN  IF load_result.kind # "ok"
        THEN [load_result EXCEPT !.op = "analyze"]
        ELSE [NoResult EXCEPT !.op = "analyze", !.cluster_id = cluster_id,
                !.resolve_calls = load_result.resolve_calls,
                !.photo_count = load_result.photo_count,
                !.groups = IF load_result.photos = <<>> THEN <<>>
                           ELSE AnalysisPipeline(load_result.photos)]

----------------------------------------------------------------------------
(* LazyPhotoLoader: calls                                                  *)

ClusterIds == 1..((MaxLibrary \div 2) + 1)

AnalyzerIdle ==
    /\ photos = <<>>
    /\ window = 0
    /\ threshold = 0
    /\ clusters = <<>>
    /\ score = 0
    /\ raw = <<>>
    /\ loaded = <<>>
    /\ groups = <<>>
    /\ phase = "loader"

\* a loader constructed over a library of the first n catalog records
InitLoader ==
    /\ \E n \in 0..MaxLibrary : library = SubSeq(LibraryCatalog, 1, n)
    /\ resolvable = DOMAIN library
    /\ cluster_cache = <<>>
    /\ metadata_cache = <<>>
    /\ cache_timestamp = <<>>
    /\ now = 0
    /\ scanned = FALSE
    /\ prev_load = <<>>
    /\ result = NoResult
    /\ AnalyzerIdle
    /\ HandlersIdle
    /\ ScanIdle
    /\ BlurIdle

\* get_library_metadata_fast: scan, cluster, then fill both caches and the timestamp
GetLibraryMetadataFast ==
    /\ now < MaxScans
    /\ \E photo_metadata \in ScanResults(library) :
        LET found == identify_clusters(photo_metadata, 10)
        IN  /\ metadata_cache' = SortByTimestamp(photo_metadata)
            /\ cluster_cache' = found
            /\ result' = [NoResult EXCEPT !.op = "scan", !.clusters = found,
                            !.stats = <<Len(photo_metadata), Len(found)>>]
    /\ cache_timestamp' = <<now + 1>>
    /\ now' = now + 1
    /\ scanned' = TRUE
    /\ prev_load' = <<>>
    /\ UNCHANGED <<library, resolvable>>
    /\ UNCHANGED analyzerVars
    /\ UNCHANGED handlerVars
    /\ UNCHANGED scan
    /\ UNCHANGED blur

\* get_library_metadata_fast when the scan itself raises: nothing is assigned
GetLibraryMetadataFastRaises ==
    /\ result' = [NoResult EXCEPT !.op = "scan", !.kind = "Exception"]
    /\ UNCHANGED <<library, resolvable, cluster_cache, metadata_cache, cache_timestamp,
                   now, scanned, prev_load>>
    /\ UNCHANGED analyzerVars
    /\ UNCHANGED handlerVars
    /\ UNCHANGED scan
    /\ UNCHANGED blur

\* load_filtered_clusters, the variant that runs the scan itself when nothing is cached
LoadFilteredClusters_ScanWhenEmpty ==
    /\ \E filters \in FilterInputs :
        LET photo_metadata == [i \in DOMAIN library |-> ScanMetadata(i, library[i])]
            found          == identify_clusters(photo_metadata, 10)
            cache          == IF cluster_cache = <<>> THEN found ELSE cluster_cache
            metadata       == IF cluster_cache = <<>> THEN SortByTimestamp(photo_metadata)
                              ELSE metadata_cache
        IN  /\ cluster_cache' = cache
            /\ metadata_cache' = metadata
            /\ result' = [load_filtered_clusters(cache, metadata, filters)
                               EXCEPT !.filters = <<filters>>]
    /\ UNCHANGED <<library, resolvable, cache_timestamp, now, scanned, prev_load>>
    /\ UNCHANGED analyzerVars
    /\ UNCHANGED handlerVars
    /\ UNCHANGED scan
    /\ UNCHANGED blur

\* load_filtered_clusters: reads both caches, assigns nothing
LoadFilteredClusters ==
    /\ \E filters \in FilterInputs :
        result' = [load_filtered_clusters(cluster_cache, metadata_cache, filters)
                       EXCEPT !.filters = <<filters>>]
    /\ UNCHANGED <<library, resolvable, cluster_cache, metadata_cache, cache_timestamp,
                   now, scanned, prev_load>>
    /\ UNCHANGED analyzerVars
    /\ UNCHANGED handlerVars
    /\ UNCHANGED scan
    /\ UNCHANGED blur

\* load_cluster_photos; prev_load remembers the call for the next one on the same id
LoadClusterPhotos ==
    /\ \E cluster_id \in ClusterIds :
        LET r      == load_cluster_photos(cluster_cache, library, resolvable, cluster_id)
            repeat == prev_load # <<>> /\ prev_load[1].cluster_id = cluster_id
        IN  /\ result' = IF r.kind = "ok" /\ repeat
                         THEN [r EXCEPT !.repeat = TRUE, !.prev_photos = prev_load[1].photos]
                         ELSE r
            /\ prev_load' = IF r.kind = "ok"
                            THEN << [cluster_id |-> cluster_id, photos |-> r.photos] >>
                            ELSE prev_load
    /\ UNCHANGED <<library, resolvable, cluster_cache, metadata_cache, cache_timestamp,
                   now, scanned>>
    /\ UNCHANGED analyzerVars
    /\ UNCHANGED handlerVars
    /\ UNCHANGED scan
    /\ UNCHANGED blur

AnalyzeClusterPhotos ==
    /\ \E cluster_id \in ClusterIds :
        result' = analyze_cluster_photos(cluster_cache, library, resolvable, cluster_id)
    /\ UNCHANGED <<library, resolvable, cluster_cache, metadata_cache, cache_timestamp,
                   now, scanned, prev_load>>
    /\ UNCHANGED analyzerVars
    /\ UNCHANGED handlerVars
    /\ UNCHANGED scan
    /\ UNCHANGED blur

\* clear_cache, the variant that leaves the cluster cache alone
ClearCache_KeepClusters ==
    /\ metadata_cache' = <<>>
    /\ cache_timestamp' = <<>>
    /\ scanned' = FALSE
    /\ prev_load' = <<>>
    /\ result' = [NoResult EXCEPT !.op = "clear"]
    /\ UNCHANGED <<library, resolvable, cluster_cache, now>>
    /\ UNCHANGED analyzerVars
    /\ UNCHANGED handlerVars
    /\ UNCHANGED scan
    /\ UNCHANGED blur

\* clear_cache
ClearCache ==
    /\ cluster_cache' = <<>>
    /\ metadata_cache' = <<>>
    /\ cache_timestamp' = <<>>
    /\ scanned' = FALSE
    /\ prev_load' = <<>>
    /\ result' = [NoResult EXCEPT !.op = "clear"]
    /\ UNCHANGED <<library, resolvable, now>>
    /\ UNCHANGED analyzerVars
    /\ UNCHANGED handlerVars
    /\ UNCHANGED scan
    /\ UNCHANGED blur

\* get_cache_stats
GetCacheStats ==
    /\ result' = [NoResult EXCEPT !.op = "stats",
                    !.stats = <<Len(cluster_cache), Len(metadata_cache), cache_timestamp>>]
    /\ UNCHANGED <<library, resolvable, cluster_cache, metadata_cache, cache_timestamp,
                   now, scanned, prev_load>>
    /\ UNCHANGED analyzerVars
    /\ UNCHANGED handlerVars
    /\ UNCHANGED scan
    /\ UNCHANGED blur

\* the library changes under the loader: a record is deleted or restored
LibraryChanges ==
    /\ \E uuid \in DOMAIN library :
        resolvable' = IF uuid \in resolvable THEN resolvable \ {uuid}
                      ELSE resolvable \cup {uuid}
    /\ UNCHANGED <<library, cluster_cache, metadata_cache, cache_timestamp,
                   now, scanned, prev_load, result>>
    /\ UNCHANGED analyzerVars
    /\ UNCHANGED handlerVars
    /\ UNCHANGED scan
    /\ UNCHANGED blur

NextLoader ==
    \/ GetLibraryMetadataFast
    \/ GetLibraryMetadataFastRaises
    \/ LoadFilteredClusters
    \/ LoadClusterPhotos
    \/ AnalyzeClusterPhotos
    \/ ClearCache
    \/ GetCacheStats
    \/ LibraryChanges

SpecLoader == InitLoader /\ [][NextLoader]_vars

----------------------------------------------------------------------------
(* LazyPhotoLoader under concurrent request handlers.  The loader is one   *)
(* module-level object (app.py:44) of a threaded web application and holds *)
(* no lock: a handler can be pre-empted between any two statements.        *)

ScanInFlight == {h \in Handlers : pc[h] \in {"line54", "line55", "line56"}}

\* get_library_metadata_fast, lines 47-51: the scan and the clustering, into locals
ScanLibrary(h) ==
    /\ pc[h] = "idle"
    /\ now + Cardinality(ScanInFlight) < MaxScans
    /\ \E photo_metadata \in ScanResults(library) :
        frame' = [frame EXCEPT ![h] =
                    [photo_metadata |-> SortByTimestamp(photo_metadata),
                     clusters       |-> identify_clusters(photo_metadata, 10)]]
    /\ pc' = [pc EXCEPT ![h] = "line54"]
    /\ UNCHANGED loaderVars
    /\ UNCHANGED analyzerVars
    /\ UNCHANGED scan
    /\ UNCHANGED blur

\* line 54: self._metadata_cache = {p.uuid: p for p in photo_metadata}
AssignMetadataCache(h) ==
    /\ pc[h] = "line54"
    /\ metadata_cache' = frame[h].photo_metadata
    /\ pc' = [pc EXCEPT ![h] = "line55"]
    /\ UNCHANGED <<library, resolvable, cluster_cache, cache_timestamp, now, scanned,
                   prev_load, result, frame>>
    /\ UNCHANGED analyzerVars
    /\ UNCHANGED scan
    /\ UNCHANGED blur

\* line 55: self._cluster_cache = {c.cluster_id: c for c in clusters}
AssignClusterCache(h) ==
    /\ pc[h] = "line55"
    /\ cluster_cache' = frame[h].clusters
    /\ pc' = [pc EXCEPT ![h] = "line56"]
    /\ UNCHANGED <<library, resolvable, metadata_cache, cache_timestamp, now, scanned,
                   prev_load, result, frame>>
    /\ UNCHANGED analyzerVars
    /\ UNCHANGED scan
    /\ UNCHANGED blur

\* lines 56-77: self._cache_timestamp = datetime.now(), then the return
AssignCacheTimestamp(h) ==
    /\ pc[h] = "line56"
    /\ cache_timestamp' = <<now + 1>>
    /\ now' = now + 1
    /\ scanned' = TRUE
    /\ prev_load' = <<>>
    /\ result' = [NoResult EXCEPT !.op = "scan", !.clusters = frame[h].clusters,
                    !.stats = <<Len(frame[h].photo_metadata), Len(frame[h].clusters)>>]
    /\ pc' = [pc EXCEPT ![h] = "idle"]
    /\ frame' = [frame EXCEPT ![h] = [photo_metadata |-> <<>>, clusters |-> <<>>]]
    /\ UNCHANGED <<library, resolvable, cluster_cache, metadata_cache>>
    /\ UNCHANGED analyzerVars
    /\ UNCHANGED scan
    /\ UNCHANGED blur

\* clear_cache, line 277: self._cluster_cache.clear()
ClearClusterCache(h) ==
    /\ pc[h] = "idle"
    /\ cluster_cache' = <<>>
    /\ pc' = [pc EXCEPT ![h] = "line278"]
    /\ UNCHANGED <<library, resolvable, metadata_cache, cache_timestamp, now, scanned,
                   prev_load, result, frame>>
    /\ UNCHANGED analyzerVars
    /\ UNCHANGED scan
    /\ UNCHANGED blur

\* line 278: self._metadata_cache.clear()
ClearMetadataCache(h) ==
    /\ pc[h] = "line278"
    /\ metadata_cache' = <<>>
    /\ pc' = [pc EXCEPT ![h] = "line279"]
    /\ UNCHANGED <<library, resolvable, cluster_cache, cache_timestamp, now, scanned,
                   prev_load, result, frame>>
    /\ UNCHANGED analyzerVars
    /\ UNCHANGED scan
    /\ UNCHANGED blur

\* line 279: self._cache_timestamp = None, then the return
ClearCacheTimestamp(h) ==
    /\ pc[h] = "line279"
    /\ cache_timestamp' = <<>>
    /\ scanned' = FALSE
    /\ prev_load' = <<>>
    /\ result' = [NoResult EXCEPT !.op = "clear"]
    /\ pc' = [pc EXCEPT ![h] = "idle"]
    /\ UNCHANGED <<library, resolvable, cluster_cache, metadata_cache, now, frame>>
    /\ UNCHANGED analyzerVars
    /\ UNCHANGED scan
    /\ UNCHANGED blur

\* the writers statement by statement; a reader (get_cache_stats) can run between any
\* two statements, and every reachable state is one a reader can observe
NextHandlers ==
    \/ \E h \in Handlers : ScanLibrary(h)
    \/ \E h \in Handlers : AssignMetadataCache(h)
    \/ \E h \in Handlers : AssignClusterCache(h)
    \/ \E h \in Handlers : AssignCacheTimestamp(h)
    \/ \E h \in Handlers : ClearClusterCache(h)
    \/ \E h \in Handlers : ClearMetadataCache(h)
    \/ \E h \in Handlers : ClearCacheTimestamp(h)
    \/ GetCacheStats

SpecHandlers == InitLoader /\ [][NextHandlers]_vars

----------------------------------------------------------------------------
(* LibraryAnalyzer.quick_scan_library as shipped                           *)

\* whether the name `filename` is bound when line 111 evaluates it: neither
\* quick_scan_library nor the module assigns it
FilenameBound == FALSE

\* the try block of one loop iteration: <<>> when a statement in it raises,
\* <<metadata>> when it reaches the append
TryEntry(uuid, photo, unreadable) ==
    IF uuid \in unreadable THEN <<>>
    ELSE IF ~FilenameBound THEN <<>>
    ELSE <<ScanMetadata(uuid, photo)>>

\* the entry's exception leaves the loop and the call
EntryFailed_Propagate(acc, uuid) ==
    [acc EXCEPT !.attempted = Append(@, uuid), !.outcome = "raised"]

\* except Exception: the error is printed and the loop continues
EntryFailed(acc, uuid) ==
    [acc EXCEPT !.attempted = Append(@, uuid), !.skipped = @ \cup {uuid}]

\* photo_metadata_list.append(metadata); total_size += metadata.file_size
EntryScanned(acc, uuid, metadata) ==
    [acc EXCEPT !.attempted = Append(@, uuid),
                !.photo_metadata_list = Append(@, metadata),
                !.total_size_bytes = @ + metadata.file_size]

RECURSIVE ScanLoop(_, _, _)
\* for i, photo in enumerate(photos), until the list ends or an exception leaves the loop
ScanLoop(lib, i, acc) ==
    IF i > Len(lib) \/ acc.outcome = "raised" THEN acc
    ELSE LET got == TryEntry(i, lib[i], acc.unreadable)
         IN  ScanLoop(lib, i + 1,
                      IF got = <<>> THEN EntryFailed(acc, i)
                      ELSE EntryScanned(acc, i, got[1]))

\* the whole call: the loop, then LibraryStats(total_photos=len(photo_metadata_list), ...)
quick_scan_library(lib, unreadable) ==
    LET done == ScanLoop(lib, 1, [NoScan EXCEPT !.outcome = "running", !.unreadable = unreadable])
    IN  IF done.outcome = "raised" THEN done
        ELSE [done EXCEPT !.outcome = "returned",
                          !.total_photos = Len(done.photo_metadata_list)]

\* the records db.photos() enumerates, drawn from the catalog
ScanCatalog == 1..3

\* a library of catalog records, some of whose attributes cannot be read
InitScan ==
    /\ \E n \in 0..MaxLibrary : \E f \in [1..n -> ScanCatalog] :
            library = [i \in 1..n |-> LibraryCatalog[f[i]]]
    /\ \E unreadable \in SUBSET (DOMAIN library) :
            scan = [NoScan EXCEPT !.unreadable = unreadable]
    /\ resolvable = DOMAIN library
    /\ cluster_cache = <<>>
    /\ metadata_cache = <<>>
    /\ cache_timestamp = <<>>
    /\ now = 0
    /\ scanned = FALSE
    /\ prev_load = <<>>
    /\ result = NoResult
    /\ AnalyzerIdle
    /\ HandlersIdle
    /\ BlurIdle

QuickScanLibrary ==
    /\ scan.outcome = "none"
    /\ scan' = quick_scan_library(library, scan.unreadable)
    /\ UNCHANGED loaderVars
    /\ UNCHANGED analyzerVars
    /\ UNCHANGED handlerVars
    /\ UNCHANGED blur

SpecScan == InitScan /\ [][QuickScanLibrary]_vars

----------------------------------------------------------------------------
(* BlurDetector                                                            *)

MaxBatch == 2

blur_threshold_very == 50

blur_threshold_moderate == 100

blur_threshold_slight == 200

\* an image file as analyze_photo meets it: whether a path was given at all, what
\* exists() / stat() do ("ok", "missing", "raises"), the size stat() reports, what
\* cv2.imread hands back ("image", "none", "raises"), what PIL's Image.open does
\* ("image", "raises"), whether the metric computation runs ("ok", "raises"), and
\* the Laplacian variance and exposure score of the pixels
ImageFile(path_given, stat, size, imread, pil, metrics, blur_score, exposure_score) ==
    [path_given |-> path_given, stat |-> stat, size |-> size, imread |-> imread, pil |-> pil,
     metrics |-> metrics, blur_score |-> blur_score, exposure_score |-> exposure_score]

BlurFiles ==
    { ImageFile(TRUE,  "ok",      4 * MB, "image",  "image",  "ok",     300, 50),
      ImageFile(TRUE,  "ok",      2 * MB, "image",  "image",  "ok",     10,  50),
      ImageFile(TRUE,  "ok",      3 * MB, "image",  "image",  "ok",     75,  90),
      ImageFile(TRUE,  "ok",      MB,     "image",  "image",  "ok",     150, 10),
      ImageFile(TRUE,  "ok",      5 * MB, "none",   "image",  "ok",     300, 50),
      ImageFile(TRUE,  "missing", 0,      "none",   "raises", "ok",     0,   0),
      ImageFile(TRUE,  "ok",      6 * MB, "raises", "raises", "ok",     0,   0),
      ImageFile(TRUE,  "ok",      7 * MB, "image",  "image",  "raises", 0,   0),
      ImageFile(TRUE,  "raises",  8 * MB, "none",   "raises", "ok",     0,   0),
      ImageFile(FALSE, "raises",  0,      "raises", "raises", "ok",     0,   0) }

_classify_blur_level(blur_score) ==
    IF blur_score < blur_threshold_very THEN "very-blurry"
    ELSE IF blur_score < blur_threshold_moderate THEN "blurry"
    ELSE IF blur_score < blur_threshold_slight THEN "slightly-blurry"
    ELSE "sharp"

\* the issues joined into the assessment, as a list; <<>> is 'Good quality'
_assess_quality(blur_level, exposure_score) ==
    (CASE blur_level = "very-blurry"     -> <<"Very blurry">>
       [] blur_level = "blurry"          -> <<"Blurry">>
       [] blur_level = "slightly-blurry" -> <<"Slightly blurry">>
       [] OTHER                          -> <<>>)
    \o (IF exposure_score < 20 THEN <<"Underexposed">>
        ELSE IF exposure_score > 80 THEN <<"Overexposed">>
        ELSE <<>>)

\* a call's outcome: the BlurResult returned, or the exception that left the call
Returned(r) == [raised |-> None, value |-> r]

Raised(e) == [raised |-> e, value |-> <<>>]

_create_error_result(photo_uuid, file_size) ==
    [photo_uuid |-> photo_uuid, blur_score |-> 0, blur_level |-> "unknown",
     exposure_score |-> 0, quality_assessment |-> <<"Analysis failed">>,
     file_size_bytes |-> file_size, resolution_known |-> FALSE]

\* analyze_photo.  Path(image_path) and file_path.stat() run inside the outer try
\* before file_size is assigned: when one of them raises, the handler at line 127
\* reads the unbound local file_size and the call ends in UnboundLocalError
analyze_photo(file, photo_uuid) ==
    IF ~file.path_given \/ file.stat = "raises" THEN Raised("UnboundLocalError")
    ELSE LET file_size == IF file.stat = "ok" THEN file.size ELSE 0
             img_loaded == file.imread = "image" \/ file.pil = "image"
         IN  IF ~img_loaded THEN Returned(_create_error_result(photo_uuid, file_size))
             ELSE IF file.metrics = "raises"
                  THEN Returned(_create_error_result(photo_uuid, file_size))
             ELSE LET blur_level == _classify_blur_level(file.blur_score)
                  IN  Returned([photo_uuid |-> photo_uuid, blur_score |-> file.blur_score,
                                blur_level |-> blur_level,
                                exposure_score |-> file.exposure_score,
                                quality_assessment |->
                                    _assess_quality(blur_level, file.exposure_score),
                                file_size_bytes |-> file_size, resolution_known |-> TRUE])

RECURSIVE BatchLoop(_, _, _)
\* for i, (image_path, photo_uuid) in enumerate(image_paths): an exception that
\* leaves analyze_photo leaves analyze_batch
BatchLoop(files, i, results) ==
    IF i > Len(files) THEN Returned(results)
    ELSE LET r == analyze_photo(files[i], i)
         IN  IF r.raised # None THEN Raised(r.raised)
             ELSE BatchLoop(files, i + 1, Append(results, r.value))

analyze_batch(files) == BatchLoop(files, 1, <<>>)

BlurLevels == {"very-blurry", "blurry", "slightly-blurry", "sharp"}

CountLevel(results, level) ==
    Cardinality({ i \in DOMAIN results : results[i].blur_level = level })

\* get_statistics: {} for no results; by_level has the four keys of line 168, so
\* by_level[result.blur_level] += 1 is a KeyError for any other level
get_statistics(results) ==
    IF results = <<>> THEN Returned(<<>>)
    ELSE IF \E i \in DOMAIN results : results[i].blur_level \notin BlurLevels
         THEN Raised("KeyError")
    ELSE LET by_level == [l \in BlurLevels |-> CountLevel(results, l)]
             problematic_photos ==
                 SelectSeq(results, LAMBDA r : r.blur_level \in {"very-blurry", "blurry"})
         IN  Returned(<< [total_analyzed |-> Len(results),
                          by_quality_level |-> by_level,
                          quality_issues_found |-> by_level["very-blurry"] + by_level["blurry"],
                          potential_savings_bytes |->
                              SumSeq([i \in DOMAIN problematic_photos |->
                                         problematic_photos[i].file_size_bytes])] >>)

\* a detector with default thresholds and the files its caller is going to hand it
InitBlur ==
    /\ \E n \in 0..MaxBatch : \E f \in [1..n -> BlurFiles] : blur = [NoBlur EXCEPT !.files = f]
    /\ LoaderIdle
    /\ HandlersIdle
    /\ ScanIdle
    /\ AnalyzerIdle

\* analyze_photo on the first file
BlurAnalyzePhoto ==
    /\ blur.step = "input"
    /\ blur.files # <<>>
    /\ LET r == analyze_photo(blur.files[1], 1)
       IN  blur' = [blur EXCEPT !.step = "analyzed", !.raised = r.raised,
                                !.results = IF r.raised = None THEN <<r.value>> ELSE <<>>]
    /\ UNCHANGED analyzerVars
    /\ UNCHANGED loaderVars
    /\ UNCHANGED handlerVars
    /\ UNCHANGED scan

\* analyze_batch on all the files
AnalyzeBatch ==
    /\ blur.step = "input"
    /\ LET r == analyze_batch(blur.files)
       IN  blur' = [blur EXCEPT !.step = "batched", !.raised = r.raised, !.results = r.value]
    /\ UNCHANGED analyzerVars
    /\ UNCHANGED loaderVars
    /\ UNCHANGED handlerVars
    /\ UNCHANGED scan

\* get_statistics on the list analyze_batch returned
GetStatistics ==
    /\ blur.step = "batched"
    /\ blur.raised = None
    /\ LET r == get_statistics(blur.results)
       IN  blur' = [blur EXCEPT !.step = "statistics", !.raised = r.raised, !.stats = r.value]
    /\ UNCHANGED analyzerVars
    /\ UNCHANGED loaderVars
    /\ UNCHANGED handlerVars
    /\ UNCHANGED scan

NextBlur == BlurAnalyzePhoto \/ AnalyzeBatch \/ GetStatistics

SpecBlur == InitBlur /\ [][NextBlur]_vars

----------------------------------------------------------------------------
(* Properties                                                              *)

PhotoByUuid(ps, u) == ps[CHOOSE i \in DOMAIN ps : ps[i].uuid = u]

Members(ps, c) == [k \in DOMAIN c.photo_uuids |-> PhotoByUuid(ps, c.photo_uuids[k])]

InSomeGroup(u) == \E g \in DOMAIN groups : u \in Uuids(groups[g].photos)

\* C1: every member of a cluster returned by identify_clusters has the camera model
\* recorded on the cluster (both None counts as equal)
C1_ClusterCameraModel ==
    phase = "clustered" =>
        \A c \in DOMAIN clusters : \A k \in DOMAIN clusters[c].photo_uuids :
            PhotoByUuid(photos, clusters[c].photo_uuids[k]).camera_model = clusters[c].camera_model

\* a cluster was built while a photo of another camera model lay inside its window
C1_Witness ==
    /\ phase = "clustered"
    /\ \E c \in DOMAIN clusters : \E i \in DOMAIN photos :
        /\ photos[i].uuid \notin Range(clusters[c].photo_uuids)
        /\ photos[i].camera_model # clusters[c].camera_model
        /\ photos[i].timestamp >= clusters[c].time_span_start
        /\ photos[i].timestamp <= clusters[c].time_span_start + window

\* C2: every member's timestamp lies in [seed, seed + W], the seed being the earliest
\* member, so members adjacent in time are at most W apart; two entries 40 s apart
\* give no cluster under W = 10
C2_ClusterWindow ==
    phase = "clustered" =>
        /\ \A c \in DOMAIN clusters :
            LET ms == Members(photos, clusters[c])
                seed == MinSeq([k \in DOMAIN ms |-> ms[k].timestamp], 0)
            IN  /\ \A k \in DOMAIN ms :
                        ms[k].timestamp >= seed /\ ms[k].timestamp <= seed + window
                /\ \A k \in DOMAIN ms : \A l \in DOMAIN ms :
                        ms[l].timestamp >= ms[k].timestamp =>
                            \/ ms[l].timestamp - ms[k].timestamp <= window
                            \/ \E m \in DOMAIN ms : /\ ms[m].timestamp > ms[k].timestamp
                                                    /\ ms[m].timestamp < ms[l].timestamp
        /\ (Len(photos) = 2 /\ window = 10 /\ photos[2].timestamp - photos[1].timestamp = 40)
                => clusters = <<>>

\* a cluster was built, and a photo of its camera model that is within W of its last
\* member but past seed + W stays outside it
C2_Witness ==
    /\ phase = "clustered"
    /\ \E c \in DOMAIN clusters : \E i \in DOMAIN photos :
        /\ photos[i].uuid \notin Range(clusters[c].photo_uuids)
        /\ photos[i].camera_model = clusters[c].camera_model
        /\ photos[i].timestamp > clusters[c].time_span_start + window
        /\ photos[i].timestamp <= clusters[c].time_span_end + window

\* C3: every cluster of identify_clusters and every group of the analysis (grouping,
\* scoring, refinement) has at least 2 members
C3_AtLeastTwoMembers ==
    /\ phase = "clustered" =>
        \A c \in DOMAIN clusters :
            clusters[c].photo_count >= 2 /\ Len(clusters[c].photo_uuids) >= 2
    /\ phase = "analyzed" =>
        \A g \in DOMAIN groups : Cardinality(Uuids(groups[g].photos)) >= 2

\* the analysis returned a refined group and left a loaded, timestamped photo out of
\* every group
C3_Witness ==
    /\ phase = "analyzed"
    /\ \E g \in DOMAIN groups : Len(groups[g].group_id) = 2
    /\ \E i \in DOMAIN loaded : loaded[i].timestamp # NoTimestamp /\ ~InSomeGroup(loaded[i].uuid)

PriorityNames == <<"P1", "P2", "P3", "P4", "P5", "P6", "P7", "P8", "P9", "P10">>

C5_ScoresInRange ==
    /\ phase = "clustered" =>
        \A c \in DOMAIN clusters : clusters[c].duplicate_probability_score \in 0..100
    /\ phase = "scored" => score \in 0..100
    /\ phase = "extracted" => loaded[1].organization_score \in 0..100
    /\ phase = "quality" => score \in 0..(100 * QScale)

\* the factor points of a scored list add up to more than 100
C5_Witness ==
    /\ phase = "scored"
    /\ Len(photos) >= 2
    /\ TimePoints(photos) + SizePoints(photos) + CameraPoints(photos) + LocationPoints(photos) > 100

\* C6: in every group of the grouping, scoring and refinement steps the recommended
\* photo is one of the group's own members
C6_RecommendedIsMember ==
    phase \in {"grouped", "enhanced", "refined", "analyzed"} =>
        \A g \in DOMAIN groups :
            groups[g].recommended_photo_uuid \in Uuids(groups[g].photos)

\* refinement split a group: a refined group exists and a photo that was scored higher
\* than its recommended photo is outside it
C6_Witness ==
    /\ phase = "analyzed"
    /\ \E g \in DOMAIN groups : \E i \in DOMAIN loaded :
        /\ Len(groups[g].group_id) = 2
        /\ loaded[i].uuid \notin Uuids(groups[g].photos)
        /\ loaded[i].timestamp # NoTimestamp
        /\ loaded[i].path_ok /\ loaded[i].file_decodable
        /\ loaded[i].file_quality >
             PhotoByUuid(groups[g].photos, groups[g].recommended_photo_uuid).quality_score

\* C7: the recommended photo of every group of the analysis has the highest quality
\* score of the group, and among the members sharing that score the latest capture time
C7_BestThenLatest ==
    phase = "analyzed" =>
        \A g \in DOMAIN groups :
            LET r == PhotoByUuid(groups[g].photos, groups[g].recommended_photo_uuid)
            IN  \A k \in DOMAIN groups[g].photos :
                    LET p == groups[g].photos[k]
                    IN  /\ p.quality_score <= r.quality_score
                        /\ p.quality_score = r.quality_score => p.timestamp <= r.timestamp

\* the member ids of the cached cluster a load or analyze call was made for
MemberIds(cluster_id) == Range(ClusterById(cluster_cache, cluster_id).photo_uuids)

\* a step is a load_cluster_photos / analyze_cluster_photos call for a cached cluster:
\* every call overwrites result, and only LibraryChanges touches resolvable
LoadOrAnalyzeCall ==
    /\ result'.op \in {"load", "analyze"}
    /\ resolvable' = resolvable
    /\ InCache(cluster_cache, result'.cluster_id)

C10_NoScanFailsFast ==
    (result.op \in {"filter", "analyze"} /\ ~scanned) =>
        /\ result.kind = "ValueError"
        /\ result.clusters = <<>>
        /\ result.groups = <<>>

\* analyze_cluster_photos raised after a scan had completed and the cache was cleared
C10_Witness ==
    /\ result.op = "analyze"
    /\ ~scanned
    /\ now > 0
    /\ result.kind = "ValueError"

\* C11 as stated: after a scan that completed, load_filtered_clusters({}) returns
\* exactly the clusters of the cluster cache, whatever their number, zero included.
C11_EmptyFilterReturnsCache ==
    (result.op = "filter" /\ result.filters = <<NoFilters>> /\ scanned) =>
        /\ result.kind = "ok"
        /\ result.clusters = cluster_cache

\* a step is a load_filtered_clusters call
FilterCall ==
    /\ result'.op = "filter"
    /\ resolvable' = resolvable

\* C12: a load_filtered_clusters call, for any filters and any cache state, whether it
\* returns or raises, runs no scan and leaves the metadata cache, the cluster cache and
\* the cache timestamp as they were; every cluster it returns is in the cluster cache.
C12_FilterLeavesCaches ==
    [][FilterCall =>
            /\ UNCHANGED <<metadata_cache, cluster_cache, cache_timestamp, now, scanned>>
            /\ Range(result'.clusters) \subseteq Range(cluster_cache)
            /\ (result'.kind # "ok" => result'.clusters = <<>>)]_vars

\* a filter call whose filters matched no cached cluster, with both caches still filled
C12_Witness ==
    /\ result.op = "filter"
    /\ result.kind = "ok"
    /\ result.filters # <<NoFilters>>
    /\ result.clusters = <<>>
    /\ cluster_cache # <<>>
    /\ metadata_cache # <<>>
    /\ cache_timestamp # <<>>

RefineCall == phase \in {"grouped", "enhanced"} /\ phase' = "refined"

\* the photos of an input group as the refinement sees them, hashes computed
Hashed(group) == [k \in DOMAIN group.photos |-> HashIfMissing(group.photos[k])]

\* C14: two photos of one input group whose perceptual hashes are identical are in one
\* and the same output group, wherever they stand in the group and whatever the
\* threshold (70, 90 or 100) and the other photos.
C14_IdenticalHashesStayTogether ==
    [][RefineCall =>
            \A g \in DOMAIN groups :
                LET ps == Hashed(groups[g])
                IN  \A a, b \in DOMAIN ps :
                        (a # b /\ ps[a].perceptual_hash # <<>>
                               /\ ps[a].perceptual_hash = ps[b].perceptual_hash) =>
                            \E o \in DOMAIN groups' :
                                {ps[a].uuid, ps[b].uuid} \subseteq Uuids(groups'[o].photos)]_vars

\* the first and the third photo have one hash, and sit in one refined group that the
\* second photo, with a different hash, is not part of
C14_Witness ==
    /\ phase = "refined"
    /\ Len(loaded) = 3
    /\ \E o \in DOMAIN groups :
        LET ps == groups[o].photos
        IN  /\ Uuids(ps) = {1, 3}
            /\ ps[1].perceptual_hash # <<>>
            /\ ps[1].perceptual_hash = ps[2].perceptual_hash

\* the hashed photos of an input group, in the order the refinement scans them
WithHashes(group) == SelectSeq(Hashed(group), LAMBDA p : p.perceptual_hash # <<>>)

Similar(p, q, T) ==
    calculate_visual_similarity(p.perceptual_hash, q.perceptual_hash) >= T * SimScale

RECURSIVE IsSeed(_, _, _)
\* star grouping: an entry seeds a subgroup iff no earlier seed is T-similar to it
IsSeed(ps, i, T) == \A j \in 1..(i - 1) : IsSeed(ps, j, T) => ~Similar(ps[j], ps[i], T)

\* star grouping: the seed and the later entries T-similar to it that no earlier seed took
StarOf(ps, i, T) ==
    {ps[i].uuid} \cup
    {ps[k].uuid : k \in {k \in (i + 1)..Len(ps) :
                            /\ Similar(ps[i], ps[k], T)
                            /\ \A j \in 1..(i - 1) : IsSeed(ps, j, T) => ~Similar(ps[j], ps[k], T)}}

\* the member sets star grouping gives for the hashed photos: stars of two or more
Stars(ps, T) ==
    {StarOf(ps, i, T) :
        i \in {i \in DOMAIN ps : IsSeed(ps, i, T) /\ Cardinality(StarOf(ps, i, T)) > 1}}

\* the member sets of the output groups made from the input group
OutputSets(out, group) ==
    {Uuids(out[o].photos) : o \in {o \in DOMAIN out :
        /\ Len(out[o].group_id) = Len(group.group_id) + 1
        /\ SubSeq(out[o].group_id, 1, Len(group.group_id)) = group.group_id}}

\* refinement is star grouping: for every input group with two or more hashed photos,
\* the output groups of hashed photos are the stars of two or more
StarGrouping ==
    \A g \in DOMAIN groups :
        LET ps == WithHashes(groups[g])
        IN  Len(ps) > 1 =>
                {m \in OutputSets(groups', groups[g]) : m \subseteq Uuids(ps)}
                    = Stars(ps, threshold')

\* the fifth photo is below 70% to every seed
ApartFromSeeds(ps, d) ==
    \A j \in DOMAIN ps \ {d} : IsSeed(ps, j, 70) => ~Similar(ps[d], ps[j], 70)

\* the fifth photo is below 70% to each of the four
ApartFromAll(ps, d) ==
    \A j \in DOMAIN ps \ {d} : ~Similar(ps[d], ps[j], 70)

\* the scenario: five hashed photos, four of them a seed s and three photos 70% similar
\* to it, the fifth photo d standing apart (from all four, or from the seeds only),
\* give one group of the four
ScenarioC(from_all) ==
    \A g \in DOMAIN groups :
        LET ps == WithHashes(groups[g])
        IN  (threshold' = 70 /\ Len(groups[g].photos) = 5 /\ Len(ps) = 5) =>
                \A d, s \in DOMAIN ps :
                    (/\ d # s
                     /\ IsSeed(ps, s, 70)
                     /\ \A e \in DOMAIN ps \ {d, s} : Similar(ps[e], ps[s], 70)
                     /\ IF from_all THEN ApartFromAll(ps, d) ELSE ApartFromSeeds(ps, d)) =>
                        OutputSets(groups', groups[g]) = {Uuids(ps) \ {ps[d].uuid}}

\* C15 as stated: refinement is star grouping in input order, and four photos 70%
\* similar to a common seed plus one photo below 70% to every seed give exactly one
\* group, of the four.
C15_StarGroupingAndScenario ==
    [][RefineCall => (StarGrouping /\ ScenarioC(FALSE))]_vars

\* C15: refinement is star grouping in input order, and four photos 70% similar to a
\* common seed plus one photo below 70% to each of the four give exactly one group, of
\* the four, the fifth photo being in no group.
C15_StarGroupingAndSeparateFifth ==
    [][RefineCall => (StarGrouping /\ ScenarioC(TRUE))]_vars

\* five hashed photos refined at 70: the first stands apart and is in no group, the
\* other four form the only group although two of them are below 70% to each other
C15_Witness ==
    /\ phase = "refined"
    /\ threshold = 70
    /\ Len(loaded) = 5
    /\ Len(groups) = 1
    /\ Uuids(groups[1].photos) = {2, 3, 4, 5}
    /\ \A k \in DOMAIN groups[1].photos : groups[1].photos[k].perceptual_hash # <<>>
    /\ \E a, b \in DOMAIN groups[1].photos :
            ~Similar(groups[1].photos[a], groups[1].photos[b], 70)

\* C16 as stated: for every input group of two or more photos, each photo whose hash
\* could not be computed is in exactly one output group, also when it is the only one.
C16_HashlessKept ==
    [][RefineCall =>
            \A g \in DOMAIN groups :
                Len(groups[g].photos) >= 2 =>
                    \A k \in DOMAIN groups[g].photos :
                        Hashed(groups[g])[k].perceptual_hash = <<>> =>
                            Cardinality({o \in DOMAIN groups' :
                                groups[g].photos[k].uuid \in Uuids(groups'[o].photos)}) = 1]_vars

\* C17 as stated: a photo whose file is present but cannot be decoded leaves the
\* scoring step with the score analyze_photo_quality computes from its metadata, and
\* without a perceptual hash.
C17_UndecodableGetsMetadataScore ==
    \A g \in DOMAIN groups : \A k \in DOMAIN groups[g].photos :
        LET p == groups[g].photos[k]
        IN  (p.analyzed /\ p.path_ok /\ ~p.file_decodable) =>
                /\ p.quality_score = analyze_photo_quality(p)
                /\ p.perceptual_hash = <<>>

\* the uuids of the records in a list of PhotoMetadata
ListedUuids(list) == { list[k].uuid : k \in DOMAIN list }

\* C18: when extraction raises for an entry of a scan, the call still returns
\* normally, the entry is not among the returned records, every entry of the
\* library (so every later one) has been processed in order, and total_photos
\* is the number of records returned
C18_ScanSkipsFailedEntries ==
    /\ scan.outcome # "raised"
    /\ scan.outcome = "returned" =>
        /\ scan.attempted = [i \in DOMAIN library |-> i]
        /\ scan.unreadable \subseteq scan.skipped
        /\ scan.skipped \cap ListedUuids(scan.photo_metadata_list) = {}
        /\ scan.skipped \cup ListedUuids(scan.photo_metadata_list) = DOMAIN library
        /\ scan.total_photos = Len(scan.photo_metadata_list)

\* a returned scan of three entries whose first entry's attributes were unreadable
C18_Witness ==
    /\ scan.outcome = "returned"
    /\ Len(library) = 3
    /\ 1 \in scan.unreadable
    /\ 1 \in scan.skipped
    /\ scan.attempted = <<1, 2, 3>>

\* the list holds exactly the three entries of Scenario A: taken at 0, 3 and 6 s on
\* one device, with sizes 5 MB, 5 MB and 6 MB
IsScenarioA(ps) ==
    /\ Len(ps) = 3
    /\ { ps[i].timestamp : i \in 1..3 } = Range(ScenarioTimes)
    /\ \A i, j \in 1..3 : ps[i].camera_model = ps[j].camera_model
    /\ \E p \in Permutations3 : \A i \in 1..3 : ps[i].file_size = ScenarioSizes[p[i]]

\* C19: identify_clusters with the default window puts the three entries of
\* Scenario A in exactly one cluster holding all three, whose reclaimable bytes
\* are total minus largest = 10 MB and whose bucket is P1 or P2
C19_ScenarioA ==
    (phase = "clustered" /\ window = 10 /\ IsScenarioA(photos)) =>
        /\ Len(clusters) = 1
        /\ clusters[1].photo_count = 3
        /\ Range(clusters[1].photo_uuids) = Uuids(photos)
        /\ clusters[1].total_size_bytes = 16 * MB
        /\ clusters[1].potential_savings_bytes = 10 * MB
        /\ clusters[1].priority_level \in {"P1", "P2"}

\* the scenario clustered with the default window, given in the list out of time
\* order, its entries taken at places far apart: the bucket is P2
C19_Witness ==
    /\ phase = "clustered"
    /\ window = 10
    /\ IsScenarioA(photos)
    /\ Len(clusters) = 1
    /\ clusters[1].priority_level = "P2"
    /\ clusters[1].location_summary = "Multiple locations"

\* the number of device models among the members whose model is known
DistinctModels(ps) ==
    Cardinality({ ps[i].camera_model : i \in {j \in DOMAIN ps : ps[j].camera_model # None} })

\* the extent of the members' coordinates: <<latitude range, longitude range>>
Spread(ps) ==
    LET located == SelectSeq(ps, LAMBDA p : p.has_location)
        lat == [i \in DOMAIN located |-> located[i].latitude[1]]
        lng == [i \in DOMAIN located |-> located[i].longitude[1]]
    IN  <<MaxSeq(lat, 0) - MinSeq(lat, 0), MaxSeq(lng, 0) - MinSeq(lng, 0)>>

\* cluster b is cluster a with factor k alone changed, and not for the worse: a mean
\* inter-arrival time not larger, a total (so average) size not smaller, not more
\* device models, or the same located members not further apart
Improves(k, a, b) ==
    /\ Len(a) = Len(b)
    /\ \A j \in Factors \ {k} : FactorOf(a, j) = FactorOf(b, j)
    /\ CASE k = "time"     -> SumSeq(FactorOf(b, k)) <= SumSeq(FactorOf(a, k))
         [] k = "size"     -> SumSeq(FactorOf(b, k)) >= SumSeq(FactorOf(a, k))
         [] k = "camera"   -> DistinctModels(b) <= DistinctModels(a)
         [] k = "location" -> /\ \A i \in DOMAIN a : a[i].has_location = b[i].has_location
                              /\ Spread(b)[1] <= Spread(a)[1]
                              /\ Spread(b)[2] <= Spread(a)[2]

\* the score of two consecutive scoring calls does not decrease when factor k alone improved
MonotoneIn(k) ==
    (phase = "scored" /\ phase' = "rescored" /\ Improves(k, photos, photos')) => score' >= score

\* C20: with the other factors held fixed, the duplicate-probability score never
\* decreases when one factor alone improves: a smaller mean inter-arrival time, a
\* larger average or total size, a more consistent device model, or a more
\* consistent geolocation
C20_MonotoneInEachFactor == [][\A k \in Factors : MonotoneIn(k)]_vars

\* entry b has strictly more pixels and strictly more bytes than entry a and is
\* otherwise the same entry
LargerThan(b, a) ==
    /\ b.width * b.height > a.width * a.height
    /\ b.file_size > a.file_size
    /\ b.format = a.format
    /\ b.organization_score = a.organization_score

\* C21: of two entries that differ only in pixel dimensions and byte size, the one
\* strictly larger in both gets a metadata-based quality score at least as high
C21_LargerScoresAtLeast ==
    (phase = "compared" /\ LargerThan(loaded[2], loaded[1])) =>
        loaded[2].quality_score >= loaded[1].quality_score

\* a 2 MP entry and an entry above 8 MP with more bytes have been scored, the larger one higher
C21_Witness ==
    /\ phase = "compared"
    /\ LargerThan(loaded[2], loaded[1])
    /\ loaded[1].width * loaded[1].height = 2000000
    /\ loaded[2].width * loaded[2].height > 8000000
    /\ loaded[2].quality_score > loaded[1].quality_score

\* the image behind the file cannot be read: no path, no stat, no decoder that
\* opens it, or no metrics
Unreadable(file) ==
    \/ ~file.path_given
    \/ file.stat = "raises"
    \/ (file.imread # "image" /\ file.pil # "image")
    \/ file.metrics = "raises"

\* C22: analyze_photo never raises, at whichever step the failure occurs, and an
\* unreadable image yields a result whose bucket is 'unknown'
C22_AnalyzeNeverRaises ==
    blur.step = "analyzed" =>
        /\ blur.raised = None
        /\ Len(blur.results) = 1
        /\ Unreadable(blur.files[1]) => blur.results[1].blur_level = "unknown"

\* the summed sizes of the results in the two blurry buckets
ReclaimableBytes(results) ==
    LET Bytes(i) == IF results[i].blur_level \in {"very-blurry", "blurry"}
                    THEN results[i].file_size_bytes ELSE 0
    IN  SumSeq([i \in DOMAIN results |-> Bytes(i)])

\* C23: for any list returned by analyze_batch, also one holding 'unknown'
\* results, get_statistics returns the per-bucket counts and the reclaimable
\* bytes of the 'very-blurry' and 'blurry' results; it does not fail
C23_StatisticsOverAnyBatch ==
    blur.step = "statistics" =>
        /\ blur.raised = None
        /\ Len(blur.stats) = 1
        /\ \A l \in BlurLevels :
              blur.stats[1].by_quality_level[l] = CountLevel(blur.results, l)
        /\ blur.stats[1].potential_savings_bytes = ReclaimableBytes(blur.results)

\* C24: the points of each factor of the duplicate-probability score stay within its
\* weight (time 40, file size 30, device model 20, geolocation 10), so the sum
\* before clamping is at most 100
C24_FactorsWithinWeights ==
    (phase = "scored" /\ Len(photos) >= 2) =>
        /\ TimePoints(photos) <= 40
        /\ SizePoints(photos) <= 30
        /\ CameraPoints(photos) <= 20
        /\ LocationPoints(photos) <= 10
        /\ calculate_duplicate_probability_score_NoCap(photos) <= 100

\* C25: compute_perceptual_hash is invoked at most once for any entry across the
\* scoring step and the refinement step, also for an entry whose first
\* computation failed
C25_HashComputedOnce ==
    phase \in {"enhanced", "refined", "analyzed"} =>
        \A g \in DOMAIN groups : \A k \in DOMAIN groups[g].photos :
            groups[g].photos[k].hash_computations <= 1

\* C26: quick_scan_library returns one record for every enumerated entry whose
\* attributes are all readable: over a library of N such entries the returned
\* list has N records and total_photos is N
C26_ScanReturnsEveryReadableEntry ==
    (scan.outcome = "returned" /\ scan.unreadable = {}) =>
        /\ Len(scan.photo_metadata_list) = Len(library)
        /\ scan.total_photos = Len(library)

\* the ids of the photos that are in some cluster
Clustered == UNION { Range(clusters[c].photo_uuids) : c \in DOMAIN clusters }

\* C27: the clusters of one identify_clusters call have distinct cluster ids and are
\* pairwise disjoint, and no id is twice in one cluster (the entries' ids being unique)
C27_ClustersDisjoint ==
    phase = "clustered" =>
        /\ \A c, e \in DOMAIN clusters :
            c # e => /\ clusters[c].cluster_id # clusters[e].cluster_id
                     /\ Range(clusters[c].photo_uuids) \cap Range(clusters[e].photo_uuids) = {}
        /\ \A c \in DOMAIN clusters :
            \A k, l \in DOMAIN clusters[c].photo_uuids :
                clusters[c].photo_uuids[k] = clusters[c].photo_uuids[l] => k = l

\* two clusters were built, the second from photos lying in the window of a member
\* of the first
C27_Witness ==
    /\ phase = "clustered"
    /\ Len(clusters) = 2
    /\ \E k \in DOMAIN clusters[1].photo_uuids :
        LET m == PhotoByUuid(photos, clusters[1].photo_uuids[k])
        IN  /\ m.camera_model = clusters[2].camera_model
            /\ clusters[2].time_span_start <= m.timestamp + window

\* C28: after identify_clusters with window W no two entries left outside every
\* cluster have matching device models (equal, or both null) and timestamps at
\* most W apart
C28_UnclusteredAreApart ==
    phase = "clustered" =>
        \A i, j \in DOMAIN photos :
            (i # j /\ photos[i].uuid \notin Clustered /\ photos[j].uuid \notin Clustered
                   /\ CameraMatch(photos[i], photos[j])
                   /\ photos[i].timestamp <= photos[j].timestamp)
                => photos[j].timestamp - photos[i].timestamp > window

\* two entries of one device model are left outside every cluster, and an entry of
\* another model taken between them is left out too
C28_Witness ==
    /\ phase = "clustered"
    /\ \E i, j, m \in DOMAIN photos :
        /\ i < m /\ m < j
        /\ {photos[i].uuid, photos[j].uuid, photos[m].uuid} \cap Clustered = {}
        /\ CameraMatch(photos[i], photos[j])
        /\ ~CameraMatch(photos[i], photos[m])

\* C29: every cluster built with a window of at most 10 s scores at least 50 (30
\* or more for time proximity, 20 for the one device model), so its bucket is one
\* of P1 to P5
C29_DefaultWindowScoresAtLeast50 ==
    (phase = "clustered" /\ window <= 10) =>
        \A c \in DOMAIN clusters :
            /\ clusters[c].duplicate_probability_score >= 50
            /\ TimePoints(Members(photos, clusters[c])) >= 30
            /\ CameraPoints(Members(photos, clusters[c])) = 20
            /\ clusters[c].priority_level \in {"P1", "P2", "P3", "P4", "P5"}

\* a cluster built with the 10 s window scores exactly 50 and is in bucket P5
C29_Witness ==
    /\ phase = "clustered"
    /\ window = 10
    /\ \E c \in DOMAIN clusters :
        /\ clusters[c].duplicate_probability_score = 50
        /\ clusters[c].priority_level = "P5"

\* upper case, JPEG and JPG taken as one extension
SameExtension(a, b) ==
    LET Canon(e) == IF Upper(e) = "JPEG" THEN "JPG" ELSE Upper(e)
    IN  Canon(a) = Canon(b)

\* the cached cluster c has a member whose file name ends in one of the extensions
HasMemberOfType(c, file_types) ==
    \E k \in DOMAIN c.photo_uuids : \E m \in DOMAIN metadata_cache :
        /\ metadata_cache[m].uuid = c.photo_uuids[k]
        /\ Len(metadata_cache[m].filename) > 1
        /\ \E e \in file_types :
              SameExtension(metadata_cache[m].filename[Len(metadata_cache[m].filename)], e)

====
